---- MODULE Spec2Model ----
(***************************************************************************)
(* Model of mc (Mr. Clean): the scan -> aggregate -> prune -> delete       *)
(* pipeline of src/src/engine and src/src/lib.rs.                          *)
(*                                                                         *)
(* A name is a sequence of one-character strings, a path is a sequence of  *)
(* names (its components), the first of which stands for the scan root's   *)
(* own absolute prefix.                                                    *)
(***************************************************************************)
EXTENDS Naturals, Integers, Sequences, FiniteSets, TLC

VARIABLES
    pc,          \* position of the caller in the pipeline
    items,       \* Vec<CleanItem>: input of prune_nested_items / result of scan
    pruned,      \* Vec<CleanItem>: result of prune_nested_items
    repruned,    \* Vec<CleanItem>: result of pruning `pruned` once more
    cfg,         \* Config: the pattern lists, preserve_symlinks, max_depth
    tree,        \* the file system below the root when the scan starts
    fs,          \* the file system now: the set of existing nodes
    walk,        \* the entries the WalkDir iterator has not yielded yet
    acc,         \* the fold accumulator of every scan worker
    live,        \* the workers whose accumulator has not been merged away
    scan_errors, \* Vec<ScanError>: the failures the scan returned
    locked,      \* the paths the file system refuses to remove
    work,        \* the items of a live clean, sorted by descending size
    queue,       \* the indices of `work` no worker has taken yet
    stats,       \* Statistics: items_deleted, bytes_freed, errors by path
    errors,      \* the Mutex<Vec<CleanError>> of a live clean
    report,      \* the CleanReport returned to the caller
    pmatcher,    \* a PatternMatcher built on its own and asked about names
    held,        \* that matcher as it was before patterns were added to it
    probe,       \* the path and type hint of the last matches_with_type call
    found,       \* what that call returned
    added,       \* the strings of the last add_*_patterns call on it
    args,        \* the exclude, include and preserve_env arguments of the CLI
    merged,      \* the PatternConfig after merge_cli_args
    remerged,    \* the PatternConfig after merge_cli_args once more
    calls,       \* the invocations of clean on one ParallelCleaner
    tracker      \* the CategoryTracker attached to the scanner

scanVars == <<walk, acc, live, scan_errors>>

cleanVars == <<locked, work, queue, stats, errors, report>>

matchVars == <<pmatcher, held, probe, found, added>>

mergeVars == <<args, merged, remerged>>

vars == <<pc, items, pruned, repruned, cfg, tree, fs, walk, acc, live,
          scan_errors, locked, work, queue, stats, errors, report, pmatcher,
          held, probe, found, added, args, merged, remerged, calls, tracker>>

-----------------------------------------------------------------------------
(* Bounds: the pruner's input space and the number of scan workers.        *)
MaxItems == 3
PruneDepth == 2
NWorkers == 2

-----------------------------------------------------------------------------
(* Generic helpers.                                                        *)

Range(s) == {s[i] : i \in 1..Len(s)}

Front(s) == SubSeq(s, 1, Len(s) - 1)

Last(s) == s[Len(s)]

\* Byte order of the characters that occur in names and patterns (ASCII
\* order).
Alphabet ==
    <<"!", "*", "-", ".", "?", "[", "]", "_", "a", "b", "c", "d", "e", "f",
      "g", "h", "i", "j", "k", "l", "m", "n", "o", "p", "q", "r", "s", "t",
      "u", "v", "w", "x", "y", "z">>

CharCode(c) == CHOOSE i \in 1..Len(Alphabet) : Alphabet[i] = c

\* OsStr::cmp: lexicographic byte order; -1, 0 or 1.
RECURSIVE NameCmp(_, _)
NameCmp(a, b) ==
    IF a = <<>> THEN (IF b = <<>> THEN 0 ELSE -1)
    ELSE IF b = <<>> THEN 1
    ELSE IF CharCode(Head(a)) < CharCode(Head(b)) THEN -1
    ELSE IF CharCode(Head(a)) > CharCode(Head(b)) THEN 1
    ELSE NameCmp(Tail(a), Tail(b))

\* Path::cmp: lexicographic order of the component sequences.
RECURSIVE PathCmp(_, _)
PathCmp(a, b) ==
    IF a = <<>> THEN (IF b = <<>> THEN 0 ELSE -1)
    ELSE IF b = <<>> THEN 1
    ELSE IF NameCmp(Head(a), Head(b)) # 0 THEN NameCmp(Head(a), Head(b))
    ELSE PathCmp(Tail(a), Tail(b))

\* Path::starts_with: `base` is a component-wise prefix of `p`.
starts_with(p, base) ==
    /\ Len(base) <= Len(p)
    /\ SubSeq(p, 1, Len(base)) = base

-----------------------------------------------------------------------------
(* engine/mod.rs: the pruner.                                              *)

\* Mutant: the ancestor test with its arguments exchanged.
is_ancestor_swapped(ancestor, descendant) ==
    IF ancestor = descendant THEN FALSE ELSE starts_with(ancestor, descendant)

\* Mutant: the ancestor test without the test for equal paths.
is_ancestor_or_equal(ancestor, descendant) ==
    starts_with(descendant, ancestor)

is_ancestor(ancestor, descendant) ==
    IF ancestor = descendant THEN FALSE ELSE starts_with(descendant, ancestor)

\* Mutant: the comparator looks at the depth only.
ItemCmpDepthOnly(a, b) ==
    IF Len(a.path) < Len(b.path) THEN -1
    ELSE IF Len(a.path) > Len(b.path) THEN 1
    ELSE 0

\* The comparator of items.sort_by: depth, then path; -1, 0 or 1.
ItemCmp(a, b) ==
    IF Len(a.path) < Len(b.path) THEN -1
    ELSE IF Len(a.path) > Len(b.path) THEN 1
    ELSE PathCmp(a.path, b.path)

\* Mutant: an unstable sort, an element goes in front of its equals.
InsertItemUnstable(s, x) ==
    LET before == {i \in 1..Len(s) : ItemCmp(s[i], x) < 0}
        k == Cardinality(before)
    IN SubSeq(s, 1, k) \o <<x>> \o SubSeq(s, k + 1, Len(s))

\* One insertion of the stable sort: x goes behind every element that is not
\* greater, `s` being sorted.
InsertItem(s, x) ==
    LET notAfter == {i \in 1..Len(s) : ItemCmp(s[i], x) <= 0}
        k == Cardinality(notAfter)
    IN SubSeq(s, 1, k) \o <<x>> \o SubSeq(s, k + 1, Len(s))

\* items.sort_by(depth, then path): a stable sort.
RECURSIVE SortByDepth(_)
SortByDepth(s) ==
    IF s = <<>> THEN <<>> ELSE InsertItem(SortByDepth(Front(s)), Last(s))

\* Mutant: the ancestor test looks at the last kept item only.
RECURSIVE PruneLoopLastOnly(_, _)
PruneLoopLastOnly(rest, kept) ==
    IF rest = <<>> THEN kept
    ELSE LET item == Head(rest)
             has_ancestor ==
                 kept # <<>> /\ is_ancestor(Last(kept).path, item.path)
         IN PruneLoopLastOnly(Tail(rest),
                              IF has_ancestor THEN kept ELSE Append(kept, item))

\* The loop over the sorted items: an item is pushed unless a kept item is an
\* ancestor of it.
RECURSIVE PruneLoop(_, _)
PruneLoop(rest, kept) ==
    IF rest = <<>> THEN kept
    ELSE LET item == Head(rest)
             has_ancestor ==
                 \E i \in 1..Len(kept) : is_ancestor(kept[i].path, item.path)
         IN PruneLoop(Tail(rest), IF has_ancestor THEN kept ELSE Append(kept, item))

prune_nested_items(its) ==
    IF its = <<>> THEN its ELSE PruneLoop(SortByDepth(its), <<>>)

-----------------------------------------------------------------------------
(* patterns/matcher.rs: the pattern matcher.                               *)

\* glob::Pattern::new, the "[" case: the index of the "]" that closes the
\* class opened by pat[1], 0 when there is none.  The search starts after the
\* first member, so that "[]]" is the class of "]".
ClassEnd(pat) ==
    LET from == IF Len(pat) >= 4 /\ pat[2] = "!" THEN 4
                ELSE IF Len(pat) >= 3 /\ pat[2] # "!" THEN 3
                ELSE 0
        closers == IF from = 0 THEN {}
                   ELSE {k \in from..Len(pat) : pat[k] = "]"}
    IN IF closers = {} THEN 0
       ELSE CHOOSE k \in closers : \A j \in closers : k <= j

\* The number of "*" in a row from index i on.
RECURSIVE StarRun(_, _)
StarRun(pat, i) ==
    IF i > Len(pat) \/ pat[i] # "*" THEN 0 ELSE 1 + StarRun(pat, i + 1)

\* glob::Pattern::new from index i on: more than two "*" in a row are an
\* error, "**" must be a whole path component (the whole pattern, names
\* having no separator), a "[" must be closed.
RECURSIVE PatternValidFrom(_, _)
PatternValidFrom(pat, i) ==
    IF i > Len(pat) THEN TRUE
    ELSE IF pat[i] = "*"
    THEN LET count == StarRun(pat, i)
         IN IF count > 2 THEN FALSE
            ELSE IF count = 2 THEN i = 1 /\ Len(pat) = 2
            ELSE PatternValidFrom(pat, i + 1)
    ELSE IF pat[i] = "["
    THEN LET e == ClassEnd(SubSeq(pat, i, Len(pat)))
         IN e # 0 /\ PatternValidFrom(pat, i + e)
    ELSE PatternValidFrom(pat, i + 1)

\* glob::Pattern::new(p).is_ok()
Pattern_new_ok(pat) == PatternValidFrom(pat, 1)

\* glob's in_char_specifiers over the members of a class: "x-z" is a range,
\* every other character stands for itself.
RECURSIVE InClass(_, _)
InClass(members, c) ==
    IF members = <<>> THEN FALSE
    ELSE IF Len(members) >= 3 /\ members[2] = "-"
    THEN \/ /\ CharCode(members[1]) <= CharCode(c)
            /\ CharCode(c) <= CharCode(members[3])
         \/ InClass(SubSeq(members, 4, Len(members)), c)
    ELSE members[1] = c \/ InClass(Tail(members), c)

\* glob::Pattern::matches on one name: "*" stands for any run of characters,
\* "?" for one character, "[...]" for one character of the class and "[!...]"
\* for one outside it, every other character for itself.
RECURSIVE GlobMatch(_, _)
GlobMatch(pat, name) ==
    IF pat = <<>> THEN name = <<>>
    ELSE IF Head(pat) = "*"
         THEN \E k \in 0..Len(name) :
                 GlobMatch(Tail(pat), SubSeq(name, k + 1, Len(name)))
    ELSE IF Head(pat) = "?"
         THEN name # <<>> /\ GlobMatch(Tail(pat), Tail(name))
    ELSE IF Head(pat) = "[" /\ ClassEnd(pat) # 0
         THEN LET e == ClassEnd(pat)
                  negated == pat[2] = "!"
                  members == SubSeq(pat, IF negated THEN 3 ELSE 2, e - 1)
              IN /\ name # <<>>
                 /\ InClass(members, Head(name)) # negated
                 /\ GlobMatch(SubSeq(pat, e + 1, Len(pat)), Tail(name))
    ELSE name # <<>> /\ Head(name) = Head(pat) /\ GlobMatch(Tail(pat), Tail(name))

\* Err(PatternError) for the string that does not compile.
PatternError(p) == [pattern_error |-> p]

IsPatternError(r) == "pattern_error" \in DOMAIN r

\* Mutant: a string that does not compile is left out of the list.
compile_patterns_skip_invalid(patterns) ==
    [patterns |-> SelectSeq(patterns, Pattern_new_ok)]

\* PatternMatcher::compile_patterns and compile_patterns_with_categories:
\* every string compiled in turn, the first failure returned.
compile_patterns(patterns) ==
    LET bad == {i \in DOMAIN patterns : ~Pattern_new_ok(patterns[i])}
    IN IF bad = {} THEN [patterns |-> patterns]
       ELSE PatternError(patterns[CHOOSE i \in bad : \A j \in bad : i <= j])

\* PatternMatcher::new: the three lists compiled, directories first, or the
\* first pattern error.
PatternMatcher_new(config) ==
    LET d == compile_patterns(config.directories)
        f == compile_patterns(config.files)
        e == compile_patterns(config.exclude)
    IN IF IsPatternError(d) THEN d
       ELSE IF IsPatternError(f) THEN f
       ELSE IF IsPatternError(e) THEN e
       ELSE [directory_patterns |-> d.patterns,
             file_patterns |-> f.patterns,
             exclude_patterns |-> e.patterns]

\* PatternMatcher::add_include_patterns: each string is compiled and pushed
\* to the file list when it contains "." or "*", to the directory list
\* otherwise; a string that does not compile ends the call with an error,
\* the strings before it having been added.
RECURSIVE add_include_patterns(_, _)
add_include_patterns(m, patterns) ==
    IF patterns = <<>> THEN [ok |-> TRUE, matcher |-> m]
    ELSE LET pattern_str == Head(patterns)
         IN IF ~Pattern_new_ok(pattern_str) THEN [ok |-> FALSE, matcher |-> m]
            ELSE add_include_patterns(
                     IF "." \in Range(pattern_str) \/ "*" \in Range(pattern_str)
                     THEN [m EXCEPT !.file_patterns = Append(@, pattern_str)]
                     ELSE [m EXCEPT !.directory_patterns =
                                       Append(@, pattern_str)],
                     Tail(patterns))

\* Mutant: the strings are compiled first and pushed only when all compile.
add_exclude_patterns_all_or_nothing(m, patterns) ==
    IF \A i \in DOMAIN patterns : Pattern_new_ok(patterns[i])
    THEN [ok |-> TRUE,
          matcher |-> [m EXCEPT !.exclude_patterns = @ \o patterns]]
    ELSE [ok |-> FALSE, matcher |-> m]

\* PatternMatcher::add_exclude_patterns: each string is compiled and pushed
\* to the exclude list in turn; a string that does not compile ends the call
\* with an error, the strings before it having been pushed.
add_exclude_patterns(m, patterns) ==
    LET bad == {i \in DOMAIN patterns : ~Pattern_new_ok(patterns[i])}
        n == IF bad = {} THEN Len(patterns)
             ELSE (CHOOSE i \in bad : \A j \in bad : i <= j) - 1
    IN [ok |-> bad = {},
        matcher |-> [m EXCEPT !.exclude_patterns =
                                  @ \o SubSeq(patterns, 1, n)]]

\* A matcher without patterns, and the absence of a call.
EmptyMatcher ==
    [directory_patterns |-> <<>>, file_patterns |-> <<>>,
     exclude_patterns |-> <<>>]

NoProbe == [path |-> <<>>, file_type |-> "none"]

NoAddition == [fn |-> "none", patterns |-> <<>>]

\* Path::file_name
file_name(path) == Last(path)

\* Mutant: no exclusion pattern is consulted.
is_excluded_never(m, path) == FALSE

\* PatternMatcher::is_excluded
\* Mutant: a path is excluded when any of its components matches an
\* exclusion pattern.
is_excluded_any_component(m, path) ==
    \E i \in 1..Len(m.exclude_patterns), k \in 1..Len(path) :
        GlobMatch(m.exclude_patterns[i], path[k])

is_excluded(m, path) ==
    \E i \in 1..Len(m.exclude_patterns) :
        GlobMatch(m.exclude_patterns[i], file_name(path))

\* Option::None of matches_with_type.
NoMatch == [pattern |-> <<>>, priority |-> -1, source |-> "None"]

\* Mutant: the last pattern of a list that matches wins.
LastMatch(patterns, name) ==
    LET hits == {i \in 1..Len(patterns) : GlobMatch(patterns[i], name)}
    IN IF hits = {} THEN NoMatch
       ELSE LET idx == CHOOSE i \in hits : \A j \in hits : i >= j
            IN [pattern |-> patterns[idx], priority |-> idx - 1,
                source |-> "Config"]

\* The first pattern of a list that matches, with its index as priority.
FirstMatch(patterns, name) ==
    LET hits == {i \in 1..Len(patterns) : GlobMatch(patterns[i], name)}
    IN IF hits = {} THEN NoMatch
       ELSE LET idx == CHOOSE i \in hits : \A j \in hits : i <= j
            IN [pattern |-> patterns[idx], priority |-> idx - 1,
                source |-> "Config"]

\* Mutant: the file list is consulted before the directory list.
matches_with_type_files_first(m, path, file_type) ==
    IF is_excluded(m, path) THEN NoMatch
    ELSE LET name == file_name(path)
             file_hit == IF file_type \in {"symlink", "none", "file"}
                         THEN FirstMatch(m.file_patterns, name)
                         ELSE NoMatch
         IN IF file_hit # NoMatch THEN file_hit
            ELSE IF file_type \in {"symlink", "none", "dir"}
            THEN FirstMatch(m.directory_patterns, name)
            ELSE NoMatch

\* PatternMatcher::matches_with_type; file_type is "dir", "file", "symlink" or
\* "none" (no hint).
matches_with_type(m, path, file_type) ==
    IF is_excluded(m, path) THEN NoMatch
    ELSE LET name == file_name(path)
             is_dir_candidate == file_type \in {"symlink", "none", "dir"}
             is_file_candidate == file_type \in {"symlink", "none", "file"}
             dir_hit == IF is_dir_candidate
                        THEN FirstMatch(m.directory_patterns, name)
                        ELSE NoMatch
         IN IF dir_hit # NoMatch THEN dir_hit
            ELSE IF is_file_candidate THEN FirstMatch(m.file_patterns, name)
            ELSE NoMatch

-----------------------------------------------------------------------------
(* The file system: a set of nodes, one per existing path.                 *)
(*   kind      "dir", "file" or "symlink"                                  *)
(*   len       what metadata().len() returns for the node itself           *)
(*   target    the path a symlink resolves to (<<>> otherwise)             *)
(*   md_ok     whether fetching the entry's metadata succeeds              *)
(*   readable  whether read_dir on a directory succeeds                    *)

Dir(path, len) ==
    [path |-> path, kind |-> "dir", len |-> len, target |-> <<>>,
     md_ok |-> TRUE, readable |-> TRUE]

File(path, len) ==
    [path |-> path, kind |-> "file", len |-> len, target |-> <<>>,
     md_ok |-> TRUE, readable |-> TRUE]

Symlink(path, target, len) ==
    [path |-> path, kind |-> "symlink", len |-> len, target |-> target,
     md_ok |-> TRUE, readable |-> TRUE]

Paths(nodes) == {n.path : n \in nodes}

NodeAt(nodes, path) == CHOOSE n \in nodes : n.path = path

\* The names in a directory, listed by name.  read_dir promises no order; the
\* order in which entries reach the accumulators is left open by Fold.
RECURSIVE SortNames(_)
SortNames(S) ==
    IF S = {} THEN <<>>
    ELSE LET m == CHOOSE x \in S : \A y \in S : NameCmp(x, y) <= 0
         IN <<m>> \o SortNames(S \ {m})

ChildNames(nodes, dir) ==
    SortNames({Last(n.path) : n \in {c \in nodes :
                  Len(c.path) = Len(dir) + 1 /\ starts_with(c.path, dir)}})

\* The place a path names once the links among its parent components are
\* followed, as the system does for unlink and rmdir; the last component is
\* not followed.  At most `hops` links are followed.
RECURSIVE ResolveParents(_, _, _)
ResolveParents(nodes, path, hops) ==
    LET links == {k \in 1..(Len(path) - 1) :
                    /\ SubSeq(path, 1, k) \in Paths(nodes)
                    /\ NodeAt(nodes, SubSeq(path, 1, k)).kind = "symlink"}
    IN IF links = {} \/ hops = 0 THEN path
       ELSE LET k == CHOOSE j \in links : \A l \in links : j <= l
            IN ResolveParents(nodes,
                              NodeAt(nodes, SubSeq(path, 1, k)).target
                                  \o SubSeq(path, k + 1, Len(path)),
                              hops - 1)

Resolve(nodes, path) == ResolveParents(nodes, path, Cardinality(nodes))

-----------------------------------------------------------------------------
(* utils/progress.rs: CategoryTracker, and the category of a pattern.      *)

PatternCategory ==
    {"Dependencies", "BuildOutputs", "Cache", "IDE", "Logs", "Other"}

\* CategoryTracker::new(): no category has a count or a size yet.
CategoryTracker_new ==
    [counts |-> [c \in PatternCategory |-> 0],
     sizes |-> [c \in PatternCategory |-> 0]]

\* CategoryTracker::add_item
add_item(tr, category, size) ==
    [counts |-> [tr.counts EXCEPT ![category] = @ + 1],
     sizes |-> [tr.sizes EXCEPT ![category] = @ + size]]

RECURSIVE SumOver(_, _)
SumOver(f, S) ==
    IF S = {} THEN 0
    ELSE LET x == CHOOSE y \in S : TRUE IN f[x] + SumOver(f, S \ {x})

\* CategoryTracker::total_count
total_count(tr) == SumOver(tr.counts, PatternCategory)

\* CategoryTracker::total_size
total_size(tr) == SumOver(tr.sizes, PatternCategory)

\* BUILTIN_PATTERNS.get_category: the category of a pattern string, "Other"
\* when no built-in category applies.  A rule gets it when it is compiled and
\* a match copies it into the item.
get_category(pattern) ==
    IF pattern = <<"n", "o", "d", "e", "_", "m", "o", "d", "u", "l", "e", "s">>
    THEN "Dependencies"
    ELSE IF pattern \in {<<"d", "i", "s", "t">>,
                         <<"t", "a", "r", "g", "e", "t">>}
    THEN "BuildOutputs"
    ELSE IF pattern = <<"*", ".", "l", "o", "g">>
    THEN "Logs"
    ELSE "Other"

\* Mutant: a directory is reported with the size it had before aggregation.
RECURSIVE report_items_unaggregated(_, _)
report_items_unaggregated(tr, its) ==
    IF its = <<>> THEN tr
    ELSE report_items_unaggregated(
             add_item(tr, get_category(Head(its).pattern.pattern),
                      IF Head(its).item_type = "Directory" THEN 0
                      ELSE Head(its).size),
             Tail(its))

\* for item in &items: tracker.add_item(item.pattern.category, item.size)
RECURSIVE report_items(_, _)
report_items(tr, its) ==
    IF its = <<>> THEN tr
    ELSE report_items(add_item(tr, get_category(Head(its).pattern.pattern),
                               Head(its).size),
                      Tail(its))

-----------------------------------------------------------------------------
(* engine/scanner.rs, the walkdir iterator behind Scanner::scan:           *)
(* WalkDir::new(root).max_depth(d).follow_links(f).into_iter(), a          *)
(* depth-first pre-order walk that yields Result<DirEntry, Error>.         *)

OkEntry(path, file_type, md_ok, len, md_is_file) ==
    [ok |-> TRUE, path |-> path, file_type |-> file_type, md_ok |-> md_ok,
     len |-> len, md_is_file |-> md_is_file, loop |-> FALSE]

ErrEntry(path, loop) ==
    [ok |-> FALSE, path |-> path, file_type |-> "none", md_ok |-> FALSE,
     len |-> 0, md_is_file |-> FALSE, loop |-> loop]

\* Mutant: the walk follows a link without looking for a loop.
IsLoopNever(target, stack) == FALSE

\* walkdir's check_loop: the directory a followed link leads to is one of the
\* directories being read on the way down to the link.
IsLoop(target, stack) == target \in Range(stack)

RECURSIVE Visit(_, _, _, _, _, _)
RECURSIVE Descend(_, _, _, _, _, _)
RECURSIVE VisitAll(_, _, _, _, _, _, _)

\* The entries yielded for the node at physical path `phys`, reached under the
\* path `logical`, `stack` being the physical directories open above it.
Visit(nodes, logical, phys, depth, stack, opts) ==
    LET n == NodeAt(nodes, phys)
    IN IF n.kind = "symlink" /\ opts.follow_links
       THEN IF n.target \notin Paths(nodes)
            THEN <<ErrEntry(logical, FALSE)>>
            ELSE LET t == NodeAt(nodes, n.target)
                 IN IF t.kind = "dir"
                    THEN IF IsLoop(t.path, stack)
                         THEN <<ErrEntry(logical, TRUE)>>
                         ELSE <<OkEntry(logical, "dir", t.md_ok, t.len, FALSE)>>
                              \o Descend(nodes, logical, t.path, depth, stack, opts)
                    ELSE <<OkEntry(logical, "file", t.md_ok, t.len, TRUE)>>
       ELSE IF n.kind = "symlink"
       THEN <<OkEntry(logical, "symlink", n.md_ok, n.len, FALSE)>>
       ELSE IF n.kind = "dir"
       THEN <<OkEntry(logical, "dir", n.md_ok, n.len, FALSE)>>
            \o Descend(nodes, logical, phys, depth, stack, opts)
       ELSE <<OkEntry(logical, "file", n.md_ok, n.len, TRUE)>>

\* Mutant: the walk descends whatever the depth.
DescendAll(nodes, logical, phys, depth, stack, opts) ==
    IF ~NodeAt(nodes, phys).readable THEN <<ErrEntry(logical, FALSE)>>
    ELSE VisitAll(nodes, logical, phys, depth + 1, Append(stack, phys), opts,
                  ChildNames(nodes, phys))

\* The entries below a directory: none at max_depth, an error when it cannot be
\* read, its children in turn otherwise.
Descend(nodes, logical, phys, depth, stack, opts) ==
    IF depth >= opts.max_depth THEN <<>>
    ELSE IF ~NodeAt(nodes, phys).readable THEN <<ErrEntry(logical, FALSE)>>
    ELSE VisitAll(nodes, logical, phys, depth + 1, Append(stack, phys), opts,
                  ChildNames(nodes, phys))

VisitAll(nodes, logical, phys, depth, stack, opts, names) ==
    IF names = <<>> THEN <<>>
    ELSE Visit(nodes, logical \o <<Head(names)>>, phys \o <<Head(names)>>,
               depth, stack, opts)
         \o VisitAll(nodes, logical, phys, depth, stack, opts, Tail(names))

WalkDir(nodes, root, max_depth, follow_links) ==
    Visit(nodes, root, root, 0, <<>>,
          [max_depth |-> max_depth, follow_links |-> follow_links])

-----------------------------------------------------------------------------
(* engine/scanner.rs: Scanner::scan.                                       *)

\* Scanner::new: max_depth: 10
DefaultMaxDepth == 10

\* ScanAccumulator::default()
EmptyAccumulator ==
    [items |-> <<>>, errors |-> <<>>, file_sizes |-> <<>>, dir_bases |-> <<>>]

IoError(path) == [kind |-> "IoError", path |-> path]

SymlinkCycle(path) == [kind |-> "SymlinkCycle", path |-> path]

determine_type(file_type) ==
    IF file_type = "dir" THEN "Directory"
    ELSE IF file_type = "symlink" THEN "Symlink"
    ELSE "File"

\* The Err branch of the fold closure: the failure is recorded, as a cycle
\* when walkdir names a loop ancestor.
FoldErr(a, entry) ==
    [a EXCEPT !.errors =
        Append(@, IF entry.loop THEN SymlinkCycle(entry.path)
                  ELSE IoError(entry.path))]

\* Mutant: every entry whose name matches becomes a candidate.
is_candidate_any_match(pattern_match, item_type, metadata_available) ==
    pattern_match # NoMatch

\* Mutant: only files and symlinks are pushed.
is_candidate_no_directories(pattern_match, item_type, metadata_available) ==
    /\ pattern_match # NoMatch
    /\ item_type \in {"File", "Symlink"}
    /\ metadata_available

\* The two conditions under which the fold closure pushes an item: a pattern
\* matched, and the entry is a directory or its metadata could be fetched.
is_candidate(pattern_match, item_type, metadata_available) ==
    /\ pattern_match # NoMatch
    /\ (item_type \notin {"File", "Symlink"} \/ metadata_available)

\* The Ok branch of the fold closure for an entry other than the root.
FoldOk(a, entry, matcher) ==
    LET file_type == entry.file_type
        pattern_match == matches_with_type(matcher, entry.path, file_type)
        metadata_available == entry.md_ok
        has_file_size == file_type \in {"file", "symlink"} /\ entry.md_ok
        contributes_to_dir ==
            \/ file_type = "file" /\ entry.md_ok
            \/ file_type = "symlink" /\ entry.md_ok /\ entry.md_is_file
        has_dir_base == file_type = "dir" /\ entry.md_ok
        item_type == determine_type(file_type)
        pushed == is_candidate(pattern_match, item_type, metadata_available)
        size == IF item_type \in {"File", "Symlink"}
                THEN (IF has_file_size THEN entry.len ELSE 0)
                ELSE 0
    IN [items |->
           IF pushed
           THEN Append(a.items,
                       [path |-> entry.path, size |-> size,
                        item_type |-> item_type, pattern |-> pattern_match])
           ELSE a.items,
        errors |->
           IF metadata_available THEN a.errors
           ELSE Append(a.errors, IoError(entry.path)),
        dir_bases |->
           IF has_dir_base
           THEN Append(a.dir_bases, <<entry.path, entry.len>>)
           ELSE a.dir_bases,
        file_sizes |->
           IF contributes_to_dir /\ has_file_size
           THEN Append(a.file_sizes, <<entry.path, entry.len>>)
           ELSE a.file_sizes]

\* Mutant: a failure of the walk throws away what the worker has found.
FoldEntryDropOnError(a, entry, matcher, root) ==
    IF ~entry.ok
    THEN [EmptyAccumulator EXCEPT !.errors = FoldErr(a, entry).errors]
    ELSE IF entry.path = root THEN a
    ELSE FoldOk(a, entry, matcher)

\* Mutant: the root entry is matched like every other entry.
FoldEntryWithRoot(a, entry, matcher, root) ==
    IF ~entry.ok THEN FoldErr(a, entry) ELSE FoldOk(a, entry, matcher)

\* The closure given to fold: one entry of the walk added to an accumulator.
FoldEntry(a, entry, matcher, root) ==
    IF ~entry.ok THEN FoldErr(a, entry)
    ELSE IF entry.path = root THEN a
    ELSE FoldOk(a, entry, matcher)

\* Mutant: merging keeps the left accumulator's items only.
MergeDropItems(a, other) ==
    [items |-> a.items,
     errors |-> a.errors \o other.errors,
     file_sizes |-> a.file_sizes \o other.file_sizes,
     dir_bases |-> a.dir_bases \o other.dir_bases]

\* The closure given to reduce: the four lists appended.
Merge(a, other) ==
    [items |-> a.items \o other.items,
     errors |-> a.errors \o other.errors,
     file_sizes |-> a.file_sizes \o other.file_sizes,
     dir_bases |-> a.dir_bases \o other.dir_bases]

\* Mutant: the own size of a directory is left out of its total.
AddDirBasesNone(dir_sizes, dir_bases) == dir_sizes

\* Mutant: the own size of a directory is added to the matched directories
\* above it as well.
RECURSIVE AddDirBasesAbove(_, _)
AddDirBasesAbove(dir_sizes, dir_bases) ==
    IF dir_bases = <<>> THEN dir_sizes
    ELSE LET dir_path == Head(dir_bases)[1]
             base == Head(dir_bases)[2]
         IN AddDirBasesAbove(
                [d \in DOMAIN dir_sizes |->
                    IF starts_with(dir_path, d) THEN dir_sizes[d] + base
                    ELSE dir_sizes[d]],
                Tail(dir_bases))

\* for (dir_path, base) in dir_bases: the own size of every matched directory.
RECURSIVE AddDirBases(_, _)
AddDirBases(dir_sizes, dir_bases) ==
    IF dir_bases = <<>> THEN dir_sizes
    ELSE LET dir_path == Head(dir_bases)[1]
             base == Head(dir_bases)[2]
         IN AddDirBases(IF dir_path \in DOMAIN dir_sizes
                        THEN [dir_sizes EXCEPT ![dir_path] = @ + base]
                        ELSE dir_sizes,
                        Tail(dir_bases))

\* Mutant: a file's size is added to its parent directory only.
AddToParentOnly(dir_sizes, ancestor, size, root) ==
    IF ancestor \in DOMAIN dir_sizes
    THEN [dir_sizes EXCEPT ![ancestor] = @ + size]
    ELSE dir_sizes

\* Mutant: a file's size is added to the nearest matched directory above it
\* and to none beyond.
RECURSIVE AddToNearestMatched(_, _, _, _)
AddToNearestMatched(dir_sizes, ancestor, size, root) ==
    IF ~starts_with(ancestor, root) THEN dir_sizes
    ELSE IF ancestor \in DOMAIN dir_sizes
    THEN [dir_sizes EXCEPT ![ancestor] = @ + size]
    ELSE AddToNearestMatched(dir_sizes, Front(ancestor), size, root)

\* for ancestor in file_path.ancestors().skip(1): a file's size added to every
\* matched directory above it, up to the root.
RECURSIVE AddToAncestors(_, _, _, _)
AddToAncestors(dir_sizes, ancestor, size, root) ==
    IF ~starts_with(ancestor, root) THEN dir_sizes
    ELSE AddToAncestors(IF ancestor \in DOMAIN dir_sizes
                        THEN [dir_sizes EXCEPT ![ancestor] = @ + size]
                        ELSE dir_sizes,
                        Front(ancestor), size, root)

RECURSIVE AddFileSizes(_, _, _)
AddFileSizes(dir_sizes, file_sizes, root) ==
    IF file_sizes = <<>> THEN dir_sizes
    ELSE AddFileSizes(AddToAncestors(dir_sizes, Front(Head(file_sizes)[1]),
                                     Head(file_sizes)[2], root),
                      Tail(file_sizes), root)

\* The aggregation pass of scan over the merged accumulator: the items with
\* every matched directory's size filled in.
Aggregate(a, root) ==
    LET matched_dirs ==
            {a.items[i].path : i \in {k \in 1..Len(a.items) :
                                        a.items[k].item_type = "Directory"}}
        dir_sizes ==
            AddFileSizes(AddDirBases([d \in matched_dirs |-> 0], a.dir_bases),
                         a.file_sizes, root)
    IN [i \in 1..Len(a.items) |->
           IF a.items[i].item_type = "Directory"
           THEN [a.items[i] EXCEPT !.size = dir_sizes[a.items[i].path]]
           ELSE a.items[i]]

-----------------------------------------------------------------------------
(* engine/cleaner.rs: ParallelCleaner.                                     *)

ItemPaths(its) == {its[i].path : i \in 1..Len(its)}

\* Statistics::default(), and the state after the three resets of clean.
EmptyStatistics == [items_deleted |-> 0, bytes_freed |-> 0, errors |-> {}]

\* CleanReport::default()
DefaultReport ==
    [items_deleted |-> 0, bytes_freed |-> 0, errors |-> <<>>,
     scan_errors |-> <<>>, dry_run |-> FALSE, dirs_deleted |-> 0,
     files_deleted |-> 0]

CleanIoError(path) == [kind |-> "IoError", path |-> path]

\* One insertion of the stable sort by descending size.
InsertBySize(s, x) ==
    LET notAfter == {i \in 1..Len(s) : s[i].size >= x.size}
        k == Cardinality(notAfter)
    IN SubSeq(s, 1, k) \o <<x>> \o SubSeq(s, k + 1, Len(s))

\* Mutant: of the items given only the first is kept.
SortBySizeFirstOnly(s) == IF s = <<>> THEN <<>> ELSE <<s[1]>>

\* items.sort_by(|a, b| b.size.cmp(&a.size))
RECURSIVE SortBySize(_)
SortBySize(s) ==
    IF s = <<>> THEN <<>> ELSE InsertBySize(SortBySize(Front(s)), Last(s))

\* Mutant: removing a symlink removes what it points to as well.
remove_file_follow(nodes, lockedPaths, path) ==
    IF \/ path \notin Paths(nodes)
       \/ path \in lockedPaths
       \/ NodeAt(nodes, path).kind = "dir"
    THEN [ok |-> FALSE, fs |-> nodes]
    ELSE [ok |-> TRUE,
          fs |-> {n \in nodes :
                    /\ n.path # path
                    /\ ~(/\ NodeAt(nodes, path).kind = "symlink"
                         /\ starts_with(n.path, NodeAt(nodes, path).target))}]

\* fs::remove_file: unlinks a file or a symlink, never what a link points to.
\* The path is looked up through the links among its parents.
remove_file(nodes, lockedPaths, path) ==
    LET at == Resolve(nodes, path)
    IN IF \/ at \notin Paths(nodes)
          \/ path \in lockedPaths
          \/ NodeAt(nodes, at).kind = "dir"
       THEN [ok |-> FALSE, fs |-> nodes]
       ELSE [ok |-> TRUE, fs |-> nodes \ {NodeAt(nodes, at)}]

\* fs::remove_dir_all: removes a directory with everything below it; given a
\* symlink it removes the link.  When something at or below the path cannot be
\* removed the call fails, having removed the rest of the subtree or nothing
\* (`partial`).
remove_dir_all(nodes, lockedPaths, path, partial) ==
    LET at == Resolve(nodes, path)
    IN IF at \notin Paths(nodes) THEN [ok |-> FALSE, fs |-> nodes]
    ELSE IF NodeAt(nodes, at).kind # "dir"
    THEN remove_file(nodes, lockedPaths, path)
    ELSE LET sub == {n \in nodes : starts_with(n.path, at)}
             stuck == {n \in sub : \E l \in lockedPaths :
                                       starts_with(Resolve(nodes, l), n.path)}
         IN IF stuck = {} THEN [ok |-> TRUE, fs |-> nodes \ sub]
            ELSE [ok |-> FALSE,
                  fs |-> IF partial THEN nodes \ (sub \ stuck) ELSE nodes]

\* Mutant: a failed removal is reported as a success.
delete_item_always_ok(nodes, lockedPaths, item, partial) ==
    [ok |-> TRUE,
     fs |-> IF item.item_type = "Directory"
            THEN remove_dir_all(nodes, lockedPaths, item.path, partial).fs
            ELSE remove_file(nodes, lockedPaths, item.path).fs]

\* The invocations of clean on one ParallelCleaner that are followed.
NCalls == 2

Invocations == 1..NCalls

\* One invocation of ParallelCleaner::clean: where it stands, its sorted
\* items, the indices no worker has taken, the indices whose delete_item
\* returned Ok, its Mutex<Vec<CleanError>> and the report it returned.
IdleCall(its) ==
    [pc |-> "Idle", given |-> its, work |-> <<>>, queue |-> {},
     succeeded |-> {}, errors |-> <<>>, report |-> DefaultReport]

NoCalls == [c \in Invocations |-> IdleCall(<<>>)]

\* ParallelCleaner::delete_item (unix).
delete_item(nodes, lockedPaths, item, partial) ==
    IF item.item_type = "Directory"
    THEN remove_dir_all(nodes, lockedPaths, item.path, partial)
    ELSE remove_file(nodes, lockedPaths, item.path)

RECURSIVE SumSizes(_)
SumSizes(its) == IF its = <<>> THEN 0 ELSE Head(its).size + SumSizes(Tail(its))

\* Mutant: the dry run counts the bytes of directories only.
dry_run_clean_dirs_only(its) ==
    LET dirs == SelectSeq(its, LAMBDA it : it.item_type = "Directory")
    IN [items_deleted |-> Len(its), bytes_freed |-> SumSizes(dirs),
        errors |-> <<>>, scan_errors |-> <<>>, dry_run |-> TRUE,
        dirs_deleted |-> Len(dirs), files_deleted |-> Len(its) - Len(dirs)]

\* ParallelCleaner::dry_run_clean: totals only, the file system is not touched.
dry_run_clean(its) ==
    LET dir_count ==
            Cardinality({i \in 1..Len(its) : its[i].item_type = "Directory"})
    IN [items_deleted |-> Len(its), bytes_freed |-> SumSizes(its),
        errors |-> <<>>, scan_errors |-> <<>>, dry_run |-> TRUE,
        dirs_deleted |-> dir_count, files_deleted |-> Len(its) - dir_count]

\* Mutant: the report keeps the counters and drops the list of failures.
live_report_counts_only(st, errs) ==
    [items_deleted |-> st.items_deleted, bytes_freed |-> st.bytes_freed,
     errors |-> <<>>, scan_errors |-> <<>>, dry_run |-> FALSE,
     dirs_deleted |-> 0, files_deleted |-> 0]

\* Mutant: the statistics of the cleaner are left as the last call left them.
reset_statistics_kept(st) == st

\* self.stats: items_deleted.store(0), bytes_freed.store(0), errors.clear()
reset_statistics(st) == EmptyStatistics

\* The CleanReport a live clean builds from the counters.
live_report(st, errs) ==
    [items_deleted |-> st.items_deleted, bytes_freed |-> st.bytes_freed,
     errors |-> errs, scan_errors |-> <<>>, dry_run |-> FALSE,
     dirs_deleted |-> 0, files_deleted |-> 0]

-----------------------------------------------------------------------------
(* The trees and pattern lists the pipeline is run on.  Names and patterns *)
(* are spelled character by character.                                     *)

n_root == <<"r", "o", "o", "t">>

n_node_modules ==
    <<"n", "o", "d", "e", "_", "m", "o", "d", "u", "l", "e", "s">>

n_pkg == <<"p", "k", "g">>

n_dist == <<"d", "i", "s", "t">>

n_main_js == <<"m", "a", "i", "n", ".", "j", "s">>

n_app_log == <<"a", "p", "p", ".", "l", "o", "g">>

n_a == <<"a">>

n_b == <<"b">>

n_x_txt == <<"x", ".", "t", "x", "t">>

n_y_txt == <<"y", ".", "t", "x", "t">>

n_target == <<"t", "a", "r", "g", "e", "t">>

n_keep_log == <<"k", "e", "e", "p", ".", "l", "o", "g">>

n_cycle == <<"c", "y", "c", "l", "e">>

n_restricted == <<"r", "e", "s", "t", "r", "i", "c", "t", "e", "d">>

n_gone_log == <<"g", "o", "n", "e", ".", "l", "o", "g">>

n_ok_log == <<"o", "k", ".", "l", "o", "g">>

n_lost == <<"l", "o", "s", "t">>

n_tmp_log == <<"t", "m", "p", ".", "l", "o", "g">>

n_cache == <<"c", "a", "c", "h", "e">>

n_real == <<"r", "e", "a", "l">>

n_link == <<"l", "i", "n", "k">>

n_git == <<".", "g", "i", "t">>

n_env == <<".", "e", "n", "v">>

n_env_example ==
    <<".", "e", "n", "v", ".", "e", "x", "a", "m", "p", "l", "e">>

p_star_log == <<"*", ".", "l", "o", "g">>

p_dot_e_star == <<".", "e", "*">>

p_star == <<"*">>

p_star_dot_star == <<"*", ".", "*">>

p_keep_star == <<"k", "e", "e", "p", ".", "*">>

p_c_star == <<"c", "*">>

p_r_star == <<"r", "*">>

\* The scan root, /root.
Root == <<n_root>>

-----------------------------------------------------------------------------
(* safety/guards.rs: SafetyGuard.                                          *)

\* SafetyGuard::is_git_repo: the path or one of its ancestors holds .git.
is_git_repo(nodes, path) ==
    \E k \in 0..Len(path) : (SubSeq(path, 1, k) \o <<n_git>>) \in Paths(nodes)

\* SafetyGuard::validate: Ok or the reason for bailing out.  The free space
\* reported is u64::MAX, so that check never fails.
validate(nodes, check_git, path) ==
    IF path \notin Paths(nodes) THEN "Path does not exist"
    ELSE IF check_git /\ is_git_repo(nodes, path)
    THEN "Aborting due to git repository detection"
    ELSE "Ok"

-----------------------------------------------------------------------------
(* config/mod.rs: Config::merge_cli_args, on the PatternConfig.            *)

\* A PatternConfig without patterns, and a command line without arguments.
EmptyPatterns == [directories |-> <<>>, files |-> <<>>, exclude |-> <<>>]

NoArgs == [exclude |-> <<>>, include |-> <<>>, preserve_env |-> FALSE]

\* Vec::contains
contains(list, pattern) == pattern \in Range(list)

\* if !list.contains(&pattern) { list.push(pattern) }
push_unless_present(list, pattern) ==
    IF contains(list, pattern) THEN list ELSE Append(list, pattern)

\* pattern.contains('.') || pattern.contains('*')
is_file_pattern(pattern) == "." \in Range(pattern) \/ "*" \in Range(pattern)

\* The loop over the CLI excludes.
RECURSIVE merge_excludes(_, _)
merge_excludes(patterns, exclude) ==
    IF exclude = <<>> THEN patterns
    ELSE merge_excludes(
            [patterns EXCEPT !.exclude = push_unless_present(@, Head(exclude))],
            Tail(exclude))

\* Mutant: every CLI include goes to the directories list.
include_target_directories(pattern) == "directories"

\* The list a CLI include is added to.
include_target(pattern) ==
    IF is_file_pattern(pattern) THEN "files" ELSE "directories"

\* The loop over the CLI includes.
RECURSIVE merge_includes(_, _)
merge_includes(patterns, include) ==
    IF include = <<>> THEN patterns
    ELSE merge_includes(
            IF include_target(Head(include)) = "files"
            THEN [patterns EXCEPT !.files = push_unless_present(@, Head(include))]
            ELSE [patterns EXCEPT
                     !.directories = push_unless_present(@, Head(include))],
            Tail(include))

\* The preserve_env block.
merge_preserve_env(patterns, preserve_env) ==
    IF preserve_env
    THEN [patterns EXCEPT !.exclude =
             push_unless_present(push_unless_present(@, n_env), n_env_example)]
    ELSE patterns

\* Config::merge_cli_args
merge_cli_args(patterns, exclude, include, preserve_env) ==
    merge_preserve_env(merge_includes(merge_excludes(patterns, exclude), include),
                       preserve_env)

\* What metadata().len() returns for a directory itself: 0 on some platforms,
\* a block on others.
DirLens == {0, 4096}

\* The depths the scan is run with: the root only, two levels, the default.
MaxDepths == {0, 2, DefaultMaxDepth}

\* node_modules/pkg/dist (empty), dist with one 200-byte file, app.log of 10
\* bytes; rules node_modules, dist and *.log.
EndToEnd(dl) ==
    [name |-> "EndToEnd",
     nodes |-> {Dir(Root, dl),
                Dir(Root \o <<n_node_modules>>, dl),
                Dir(Root \o <<n_node_modules, n_pkg>>, dl),
                Dir(Root \o <<n_node_modules, n_pkg, n_dist>>, dl),
                Dir(Root \o <<n_dist>>, dl),
                File(Root \o <<n_dist, n_main_js>>, 200),
                File(Root \o <<n_app_log>>, 10)},
     directories |-> <<n_node_modules, n_dist>>,
     files |-> <<p_star_log>>,
     exclude |-> <<>>]

\* /root/a/x.txt of 100 bytes and /root/a/b/y.txt of 50 bytes; rule a, and
\* the rule r*, which matches the name of the root itself.
Nested(dl) ==
    [name |-> "Nested",
     nodes |-> {Dir(Root, dl),
                Dir(Root \o <<n_a>>, dl),
                File(Root \o <<n_a, n_x_txt>>, 100),
                Dir(Root \o <<n_a, n_b>>, dl),
                File(Root \o <<n_a, n_b, n_y_txt>>, 50)},
     directories |-> <<n_a, p_r_star>>,
     files |-> <<>>,
     exclude |-> <<>>]

\* A directory, a file and a symlink whose names match an include and an
\* exclusion pattern, beside entries that match an include pattern only.
Excluded(dl) ==
    [name |-> "Excluded",
     nodes |-> {Dir(Root, dl),
                Dir(Root \o <<n_target>>, dl),
                Dir(Root \o <<n_target, n_dist>>, dl),
                File(Root \o <<n_keep_log>>, 7),
                File(Root \o <<n_app_log>>, 10),
                Dir(Root \o <<n_dist>>, dl),
                Symlink(Root \o <<n_dist, n_target>>, Root \o <<n_app_log>>, 3)},
     directories |-> <<n_target, n_dist>>,
     files |-> <<p_star_log>>,
     exclude |-> <<n_target, p_keep_star>>]

\* a/b/cycle is a symlink to the root, "../..", as in
\* test_symlink_cycle_detection; the rule c* matches the link's name and the
\* file cache, which the walk comes to after the link.
Cycle(dl) ==
    [name |-> "Cycle",
     nodes |-> {Dir(Root, dl),
                Dir(Root \o <<n_a>>, dl),
                Dir(Root \o <<n_a, n_b>>, dl),
                Symlink(Root \o <<n_a, n_b, n_cycle>>, Root, 5),
                File(Root \o <<n_cache>>, 1)},
     directories |-> <<>>,
     files |-> <<p_c_star>>,
     exclude |-> <<>>]

\* A directory that cannot be read (test_permission_error_handling), a file
\* whose metadata cannot be fetched, a link whose target has vanished, and
\* two files without a fault, one of them walked after the directory.
Faulty(dl) ==
    [name |-> "Faulty",
     nodes |-> {Dir(Root, dl),
                [Dir(Root \o <<n_restricted>>, dl) EXCEPT !.readable = FALSE],
                File(Root \o <<n_restricted, n_app_log>>, 20),
                [File(Root \o <<n_gone_log>>, 30) EXCEPT !.md_ok = FALSE],
                Symlink(Root \o <<n_lost>>, Root \o <<n_lost, n_lost>>, 4),
                File(Root \o <<n_ok_log>>, 10),
                File(Root \o <<n_tmp_log>>, 10)},
     directories |-> <<n_restricted>>,
     files |-> <<p_star_log>>,
     exclude |-> <<>>]

\* A matched directory holding a file and a symlink whose metadata cannot be
\* fetched, both with names that match *.log, beside a file without a fault.
Unfetched(dl) ==
    [name |-> "Unfetched",
     nodes |-> {Dir(Root, dl),
                Dir(Root \o <<n_dist>>, dl),
                [File(Root \o <<n_dist, n_gone_log>>, 30) EXCEPT !.md_ok = FALSE],
                File(Root \o <<n_dist, n_main_js>>, 200),
                [Symlink(Root \o <<n_dist, n_tmp_log>>,
                         Root \o <<n_dist, n_main_js>>, 8)
                    EXCEPT !.md_ok = FALSE]},
     directories |-> <<n_dist>>,
     files |-> <<p_star_log>>,
     exclude |-> <<>>]

\* Strings that are no glob: an open class, a "**" inside a component, three
\* "*" in a row.
p_open_class == <<"[">>

p_inner_stars == <<"a", "*", "*">>

p_three_stars == <<"*", "*", "*">>

\* A tree with entries the rules dist and *.log match, one of the three
\* pattern lists ending in a string that is no glob.
BadGlob(dl, list) ==
    [name |-> "BadGlob",
     nodes |-> {Dir(Root, dl),
                Dir(Root \o <<n_dist>>, dl),
                File(Root \o <<n_app_log>>, 10)},
     directories |-> IF list = "directories" THEN <<n_dist, p_inner_stars>>
                     ELSE <<n_dist>>,
     files |-> IF list = "files" THEN <<p_star_log, p_open_class>>
               ELSE <<p_star_log>>,
     exclude |-> IF list = "exclude" THEN <<n_target, p_three_stars>>
                 ELSE <<n_target>>]

\* A directory with one file, and a link to the directory beside it; rule
\* *.log.  A walk that follows links meets the file under both names.
Aliased(dl) ==
    [name |-> "Aliased",
     nodes |-> {Dir(Root, dl),
                Dir(Root \o <<n_real>>, dl),
                File(Root \o <<n_real, n_app_log>>, 10),
                Symlink(Root \o <<n_link>>, Root \o <<n_real>>, 4)},
     directories |-> <<>>,
     files |-> <<p_star_log>>,
     exclude |-> <<>>]

\* The tree of test_permission_error_handling: nothing but a directory that
\* cannot be read, which no rule matches.
Barren(dl) ==
    [name |-> "Barren",
     nodes |-> {Dir(Root, dl),
                [Dir(Root \o <<n_restricted>>, dl) EXCEPT !.readable = FALSE]},
     directories |-> <<n_node_modules>>,
     files |-> <<p_star_log>>,
     exclude |-> <<>>]

\* A .env file at the root and a .env.example inside the directory dist;
\* rules dist and .e*, merged with the CLI flag --preserve-env.
EnvFiles(dl) ==
    LET patterns == merge_cli_args([directories |-> <<n_dist>>,
                                  files |-> <<p_dot_e_star>>,
                                  exclude |-> <<>>],
                                 <<>>, <<>>, TRUE)
    IN [name |-> "EnvFiles",
        nodes |-> {Dir(Root, dl),
                   File(Root \o <<n_env>>, 5),
                   Dir(Root \o <<n_dist>>, dl),
                   File(Root \o <<n_dist, n_env_example>>, 7)},
        directories |-> patterns.directories,
        files |-> patterns.files,
        exclude |-> patterns.exclude]

\* A git repository: .git and a directory dist at the root; rule dist.
GitRepo(dl) ==
    [name |-> "GitRepo",
     nodes |-> {Dir(Root, dl),
                Dir(Root \o <<n_git>>, dl),
                Dir(Root \o <<n_dist>>, dl),
                File(Root \o <<n_dist, n_main_js>>, 200)},
     directories |-> <<n_dist>>,
     files |-> <<>>,
     exclude |-> <<>>]

Scenarios(dl) ==
    {EndToEnd(dl), Nested(dl), Excluded(dl), Cycle(dl), Faulty(dl),
     Unfetched(dl), Aliased(dl), Barren(dl), EnvFiles(dl), GitRepo(dl)}
        \cup {BadGlob(dl, list) : list \in {"directories", "files", "exclude"}}

\* The ways a tree is cleaned: through Cleaner::clean with the default
\* check_git_repo, and, where the root lies in a git repository, also through
\* the CLI and with the check switched off.
EntryPoints(nodes) ==
    IF is_git_repo(nodes, Root)
    THEN [entry : {"cli", "lib"}, check_git_repo : BOOLEAN]
    ELSE {[entry |-> "lib", check_git_repo |-> TRUE]}

-----------------------------------------------------------------------------
(* The pipeline: lib.rs Cleaner::clean, with Scanner::scan taken entry by  *)
(* entry.                                                                  *)

Workers == 1..NWorkers

Init ==
    /\ pc = "start"
    /\ \E dl \in DirLens, follow \in BOOLEAN, depth \in MaxDepths :
         \E sc \in Scenarios(dl) :
            /\ tree = sc.nodes
            /\ \E ep \in EntryPoints(sc.nodes) :
                  cfg = [scenario |-> sc.name,
                         directories |-> sc.directories,
                         files |-> sc.files,
                         exclude |-> sc.exclude,
                         preserve_symlinks |-> ~follow,
                         max_depth |-> depth,
                         entry |-> ep.entry,
                         check_git_repo |-> ep.check_git_repo]
    /\ fs = tree
    /\ items = <<>>
    /\ pruned = <<>>
    /\ repruned = <<>>
    /\ walk = <<>>
    /\ acc = [w \in Workers |-> EmptyAccumulator]
    /\ live = Workers
    /\ scan_errors = <<>>
    /\ locked = {}
    /\ work = <<>>
    /\ queue = {}
    /\ stats = EmptyStatistics
    /\ errors = <<>>
    /\ report = DefaultReport
    /\ pmatcher = EmptyMatcher
    /\ held = EmptyMatcher
    /\ added = NoAddition
    /\ probe = NoProbe
    /\ found = NoMatch
    /\ args = NoArgs
    /\ merged = EmptyPatterns
    /\ remerged = EmptyPatterns
    /\ calls = NoCalls
    /\ tracker = CategoryTracker_new

\* The matcher Cleaner::clean compiles from the configuration.
Matcher == PatternMatcher_new(cfg)

\* main.rs run() bails out of its safety checks: with check_git_repo set the
\* guard is asked, and when it refuses run returns Ok(()) before any scan.
\* Cleaner::clean asks no guard.
GuardRefuses ==
    /\ cfg.entry = "cli"
    /\ cfg.check_git_repo
    /\ validate(fs, cfg.check_git_repo, Root) # "Ok"

Refuse ==
    /\ pc = "start"
    /\ GuardRefuses
    /\ pc' = "refused"
    /\ UNCHANGED <<tracker, calls, mergeVars, matchVars, items, pruned, repruned, cfg, tree, fs,
                   scanVars, cleanVars>>

\* Cleaner::clean (and run() past its safety checks) up to the call of scan,
\* and scan up to the walk: the matcher is compiled, the scanner built with
\* max_depth and !preserve_symlinks.  A pattern that does not compile makes
\* clean return Err(McError::Pattern).
StartScan ==
    /\ pc = "start"
    /\ ~GuardRefuses
    /\ IF IsPatternError(PatternMatcher_new(cfg))
       THEN /\ pc' = "pattern_error"
            /\ UNCHANGED <<walk, acc, live>>
       ELSE /\ walk' = WalkDir(fs, Root, cfg.max_depth, ~cfg.preserve_symlinks)
            /\ acc' = [w \in Workers |-> EmptyAccumulator]
            /\ live' = Workers
            /\ pc' = "scanning"
    /\ UNCHANGED <<tracker, calls, mergeVars, matchVars, items, pruned, repruned, cfg, tree, fs,
                   scan_errors, cleanVars>>

\* par_bridge().fold: the next entry of the walk goes to worker w.  The
\* closure holds the one matcher scan cloned before the walk.
Fold(w) ==
    /\ pc = "scanning"
    /\ walk # <<>>
    /\ \E matcher \in {Matcher}, entry_result \in {Head(walk)} :
          acc' = [acc EXCEPT ![w] = FoldEntry(@, entry_result, matcher, Root)]
    /\ walk' = Tail(walk)
    /\ UNCHANGED <<tracker, calls, mergeVars, matchVars, pc, items, pruned, repruned, cfg, tree, fs,
                   live, scan_errors, cleanVars>>

\* reduce: the accumulator of worker v is appended to that of worker w.
Reduce(w, v) ==
    /\ pc = "scanning"
    /\ walk = <<>>
    /\ w \in live /\ v \in live /\ w # v
    /\ acc' = [acc EXCEPT ![w] = Merge(acc[w], acc[v]), ![v] = EmptyAccumulator]
    /\ live' = live \ {v}
    /\ UNCHANGED <<tracker, calls, mergeVars, matchVars, pc, items, pruned, repruned, cfg, tree, fs,
                   walk, scan_errors, cleanVars>>

\* The rest of scan: directory sizes are aggregated and (items, errors) returned.
FinishScan ==
    /\ pc = "scanning"
    /\ walk = <<>>
    /\ \E w \in Workers :
         /\ live = {w}
         /\ items' = Aggregate(acc[w], Root)
         /\ scan_errors' = acc[w].errors
    /\ acc' = [w \in Workers |-> EmptyAccumulator]
    /\ tracker' = report_items(tracker, items')
    /\ pc' = "scanned"
    /\ UNCHANGED <<calls, mergeVars, matchVars, pruned, repruned, cfg, tree, fs, walk, live,
                   cleanVars>>

\* What the caller of ParallelCleaner::clean does with the report: both
\* callers add the scan's failures; run() in main.rs also sets dirs_deleted to
\* the number of directories among the items it passed in and files_deleted
\* to the number of the other items; Cleaner::clean in lib.rs sets neither.
caller_report(rep, its, entry, scan_failures) ==
    LET dir_count ==
            Cardinality({i \in 1..Len(its) : its[i].item_type = "Directory"})
    IN IF entry = "cli"
       THEN [rep EXCEPT !.scan_errors = scan_failures,
                        !.dirs_deleted = dir_count,
                        !.files_deleted = Len(its) - dir_count]
       ELSE [rep EXCEPT !.scan_errors = scan_failures]

\* Cleaner::clean after scan: the items are pruned; without items the default
\* report is returned with the scan's failures.
PruneScanned ==
    /\ pc = "scanned"
    /\ pruned' = prune_nested_items(items)
    /\ items' = <<>>
    /\ IF pruned' = <<>>
       THEN /\ report' = [DefaultReport EXCEPT !.scan_errors = scan_errors]
            /\ pc' = "reported"
       ELSE /\ report' = report
            /\ pc' = "ready"
    /\ UNCHANGED <<tracker, calls, mergeVars, matchVars, repruned, cfg, tree, fs, scanVars, locked,
                   queue, work, stats, errors>>

\* ParallelCleaner::clean with dry_run set, and the rest of Cleaner::clean.
CleanDryRun ==
    /\ pc = "ready"
    /\ report' = caller_report(dry_run_clean(pruned), pruned, cfg.entry,
                               scan_errors)
    /\ pc' = "reported"
    /\ UNCHANGED <<tracker, calls, mergeVars, matchVars, items, pruned, repruned, cfg, tree, fs,
                   scanVars, locked, queue, work, stats, errors>>

\* ParallelCleaner::clean without dry_run, up to the parallel loop: the items
\* are sorted by descending size and the statistics reset.  L is the set of
\* item paths the file system refuses to remove during this run.
BeginClean(L) ==
    /\ pc = "ready"
    /\ locked' = L
    /\ work' = SortBySize(pruned)
    /\ queue' = 1..Len(pruned)
    /\ stats' = EmptyStatistics
    /\ errors' = <<>>
    /\ pc' = "cleaning"
    /\ UNCHANGED <<tracker, calls, mergeVars, matchVars, items, pruned, repruned, cfg, tree, fs,
                   scanVars, report>>

\* The closure given to for_each, run by some worker of the pool on item i.
Delete(i, partial) ==
    /\ pc = "cleaning"
    /\ i \in queue
    /\ LET item == work[i]
           res == delete_item(fs, locked, item, partial)
       IN /\ fs' = res.fs
          /\ IF res.ok
             THEN /\ stats' = [stats EXCEPT !.items_deleted = @ + 1,
                                            !.bytes_freed = @ + item.size]
                  /\ errors' = errors
             ELSE /\ stats' = [stats EXCEPT !.errors =
                                  {e \in @ : e.path # item.path}
                                  \cup {CleanIoError(item.path)}]
                  /\ errors' = Append(errors, CleanIoError(item.path))
    /\ queue' = queue \ {i}
    /\ UNCHANGED <<tracker, calls, mergeVars, matchVars, pc, items, pruned, repruned, cfg, tree,
                   scanVars, locked, work, report>>

\* thread_pool.install returns once every item has been attempted.
Drain ==
    /\ pc = "cleaning"
    /\ queue = {}
    /\ pc' = "drained"
    /\ UNCHANGED <<tracker, calls, mergeVars, matchVars, items, pruned, repruned, cfg, tree, fs,
                   scanVars, locked, queue, work, stats, errors, report>>

\* The report is assembled from the counters, and Cleaner::clean adds the
\* scan's failures.
FinishClean ==
    /\ pc = "drained"
    /\ report' = caller_report(live_report(stats, errors), pruned, cfg.entry,
                               scan_errors)
    /\ pc' = "reported"
    /\ UNCHANGED <<tracker, calls, mergeVars, matchVars, items, pruned, repruned, cfg, tree, fs,
                   scanVars, locked, queue, work, stats, errors>>

Next ==
    \/ Refuse
    \/ StartScan
    \/ \E w \in Workers : Fold(w)
    \/ \E w, v \in Workers : Reduce(w, v)
    \/ FinishScan
    \/ PruneScanned
    \/ CleanDryRun
    \/ \E L \in SUBSET ItemPaths(pruned) : BeginClean(L)
    \/ \E i \in queue, partial \in BOOLEAN : Delete(i, partial)
    \/ Drain
    \/ FinishClean

Spec == Init /\ [][Next]_vars

\* A step of the scan's fold and reduce or the aggregation after them.
ScanStep ==
    \/ \E w \in Workers : Fold(w)
    \/ \E w, v \in Workers : Reduce(w, v)
    \/ FinishScan

\* The threads of the scan keep running: the walk is folded entry by entry,
\* the accumulators are reduced and scan returns.
FairSpec == Spec /\ WF_vars(ScanStep)

-----------------------------------------------------------------------------
(* Inputs of the pruner: lists of at most MaxItems items over the path     *)
(* /project and every path of at most PruneDepth components below it; the  *)
(* name "ab" has the name "a" as a string prefix.                          *)

PruneNames == {<<"a">>, <<"a", "b">>}

PruneRoot == << <<"p", "r", "o", "j", "e", "c", "t">> >>

PrunePaths ==
    {PruneRoot \o rel : rel \in UNION {[1..d -> PruneNames] : d \in 0..PruneDepth}}

\* tests::make_item: a directory item; the size tells equal paths apart.
make_item(path, size) ==
    [path |-> path, size |-> size, item_type |-> "Directory",
     pattern |-> [pattern |-> "test", priority |-> 0]]

PruneInit ==
    /\ pc = "prune_input"
    /\ \E n \in 0..MaxItems :
         \E ps \in [1..n -> PrunePaths] :
            items = [i \in 1..n |-> make_item(ps[i], i)]
    /\ pruned = <<>>
    /\ repruned = <<>>
    /\ cfg = [scenario |-> "none", directories |-> <<>>, files |-> <<>>,
              exclude |-> <<>>, preserve_symlinks |-> TRUE,
              max_depth |-> DefaultMaxDepth]
    /\ tree = {}
    /\ fs = {}
    /\ walk = <<>>
    /\ acc = [w \in Workers |-> EmptyAccumulator]
    /\ live = Workers
    /\ scan_errors = <<>>
    /\ locked = {}
    /\ work = <<>>
    /\ queue = {}
    /\ stats = EmptyStatistics
    /\ errors = <<>>
    /\ report = DefaultReport
    /\ pmatcher = EmptyMatcher
    /\ held = EmptyMatcher
    /\ added = NoAddition
    /\ probe = NoProbe
    /\ found = NoMatch
    /\ args = NoArgs
    /\ merged = EmptyPatterns
    /\ remerged = EmptyPatterns
    /\ calls = NoCalls
    /\ tracker = CategoryTracker_new

\* let pruned = prune_nested_items(items)
Prune ==
    /\ pc = "prune_input"
    /\ pruned' = prune_nested_items(items)
    /\ pc' = "pruned"
    /\ UNCHANGED <<tracker, calls, mergeVars, matchVars, items, repruned, cfg, tree, fs, scanVars,
                   cleanVars>>

\* prune_nested_items applied to its own result
PruneAgain ==
    /\ pc = "pruned"
    /\ repruned' = prune_nested_items(pruned)
    /\ pc' = "repruned"
    /\ UNCHANGED <<tracker, calls, mergeVars, matchVars, items, pruned, cfg, tree, fs, scanVars,
                   cleanVars>>

PruneNext == Prune \/ PruneAgain

SpecPrune == PruneInit /\ [][PruneNext]_vars

-----------------------------------------------------------------------------
(* The matcher on its own: built from a configuration, asked about names   *)
(* with every type hint, and extended with include patterns at run time.   *)

\* The pattern lists a matcher is built from; "[", "a**" and "***" do not
\* compile.
MatchDirLists ==
    {<<>>, << <<"a", "b">> >>, << <<"b">>, <<"a", "*">>, <<"a", "?">> >>,
     << <<"a">>, <<"a", "*", "*">> >>}

MatchFileLists ==
    {<<>>, << <<"a", "*">> >>, << <<"?">>, <<"a", "?">>, <<"*">> >>,
     << <<"[">> >>}

MatchExcludeLists ==
    {<<>>, << <<"b">> >>, << <<"*", "*", "*">> >>}

\* The base names asked about, and the hints: Some(dir), Some(file),
\* Some(symlink) and None.
MatchNames == {<<"a">>, <<"b">>, <<"a", "b">>}

Hints == {"dir", "file", "symlink", "none"}

\* The lists given to add_include_patterns; "[" does not compile.
AddedLists ==
    {<< <<"a", "b">> >>, << <<"a", "?">> >>, << <<"a", "*">>, <<"b">> >>,
     << <<"b">>, <<"[">> >>}

\* The lists given to add_exclude_patterns.
AddedExcludeLists ==
    {<< <<"a">> >>, << <<"a">>, <<"[">> >>, << <<"[">>, <<"b">> >>}

MatchInit ==
    /\ pc = "match_input"
    /\ \E d \in MatchDirLists, f \in MatchFileLists, e \in MatchExcludeLists :
          cfg = [scenario |-> "none", directories |-> d, files |-> f,
                 exclude |-> e, preserve_symlinks |-> TRUE,
                 max_depth |-> DefaultMaxDepth]
    /\ items = <<>>
    /\ pruned = <<>>
    /\ repruned = <<>>
    /\ tree = {}
    /\ fs = {}
    /\ walk = <<>>
    /\ acc = [w \in Workers |-> EmptyAccumulator]
    /\ live = Workers
    /\ scan_errors = <<>>
    /\ locked = {}
    /\ work = <<>>
    /\ queue = {}
    /\ stats = EmptyStatistics
    /\ errors = <<>>
    /\ report = DefaultReport
    /\ pmatcher = EmptyMatcher
    /\ held = EmptyMatcher
    /\ added = NoAddition
    /\ probe = NoProbe
    /\ found = NoMatch
    /\ args = NoArgs
    /\ merged = EmptyPatterns
    /\ remerged = EmptyPatterns
    /\ calls = NoCalls
    /\ tracker = CategoryTracker_new

\* PatternMatcher::new(&config.patterns)
Build ==
    /\ pc = "match_input"
    /\ LET built == PatternMatcher_new(cfg)
       IN IF IsPatternError(built)
          THEN pc' = "pattern_error" /\ pmatcher' = pmatcher
          ELSE pc' = "built" /\ pmatcher' = built
    /\ held' = held
    /\ UNCHANGED <<tracker, calls, mergeVars, probe, found, added, items, pruned, repruned, cfg,
                   tree, fs,
                   scanVars, cleanVars>>

\* matcher.matches_with_type(path, hint)
Probe(name, hint) ==
    /\ pc \in {"built", "added", "excluded", "add_failed"}
    /\ probe' = [path |-> Root \o <<name>>, file_type |-> hint]
    /\ found' = matches_with_type(pmatcher, Root \o <<name>>, hint)
    /\ pc' = CASE pc = "added" -> "added_probed"
              [] pc = "excluded" -> "excluded_probed"
              [] pc = "add_failed" -> "failed_probed"
              [] OTHER -> "built"
    /\ UNCHANGED <<tracker, calls, mergeVars, pmatcher, held, added, items, pruned, repruned, cfg,
                   tree, fs,
                   scanVars, cleanVars>>

\* matcher.add_include_patterns(&patterns)
AddInclude(patterns) ==
    /\ pc = "built"
    /\ held' = pmatcher
    /\ added' = [fn |-> "include", patterns |-> patterns]
    /\ LET res == add_include_patterns(pmatcher, patterns)
       IN /\ pmatcher' = res.matcher
          /\ pc' = IF res.ok THEN "added" ELSE "add_failed"
    /\ UNCHANGED <<tracker, calls, mergeVars, probe, found, items, pruned, repruned, cfg,
                   tree, fs,
                   scanVars, cleanVars>>

\* matcher.add_exclude_patterns(&patterns)
AddExclude(patterns) ==
    /\ pc = "built"
    /\ held' = pmatcher
    /\ added' = [fn |-> "exclude", patterns |-> patterns]
    /\ LET res == add_exclude_patterns(pmatcher, patterns)
       IN /\ pmatcher' = res.matcher
          /\ pc' = IF res.ok THEN "excluded" ELSE "add_failed"
    /\ UNCHANGED <<tracker, calls, mergeVars, probe, found, items, pruned, repruned, cfg,
                   tree, fs,
                   scanVars, cleanVars>>

MatchNext ==
    \/ Build
    \/ \E name \in MatchNames, hint \in Hints : Probe(name, hint)
    \/ \E patterns \in AddedLists : AddInclude(patterns)
    \/ \E patterns \in AddedExcludeLists : AddExclude(patterns)

SpecMatch == MatchInit /\ [][MatchNext]_vars

-----------------------------------------------------------------------------
(* merge_cli_args on its own: a configuration, the arguments of a command  *)
(* line, and the merge applied once and once more.                         *)

MergeDirLists == {<<>>, <<n_dist>>, <<n_dist, n_a, n_dist>>}

MergeFileLists == {<<>>, <<p_star_log>>}

MergeExcludeLists == {<<>>, <<n_env>>, <<n_target, n_env_example>>}

CliExcludes == {<<>>, <<n_target>>, <<n_keep_log, n_keep_log>>, <<n_env>>}

CliIncludes ==
    {<<>>, <<n_dist>>, <<p_star_log, n_a>>, <<n_b, n_main_js, n_b, p_c_star>>}

MergeInit ==
    /\ pc = "merge_input"
    /\ \E d \in MergeDirLists, f \in MergeFileLists, e \in MergeExcludeLists :
          cfg = [scenario |-> "none", directories |-> d, files |-> f,
                 exclude |-> e, preserve_symlinks |-> TRUE,
                 max_depth |-> DefaultMaxDepth, entry |-> "cli",
                 check_git_repo |-> TRUE]
    /\ \E e \in CliExcludes, i \in CliIncludes, p \in BOOLEAN :
          args = [exclude |-> e, include |-> i, preserve_env |-> p]
    /\ merged = EmptyPatterns
    /\ remerged = EmptyPatterns
    /\ calls = NoCalls
    /\ tracker = CategoryTracker_new
    /\ items = <<>>
    /\ pruned = <<>>
    /\ repruned = <<>>
    /\ tree = {}
    /\ fs = {}
    /\ walk = <<>>
    /\ acc = [w \in Workers |-> EmptyAccumulator]
    /\ live = Workers
    /\ scan_errors = <<>>
    /\ locked = {}
    /\ work = <<>>
    /\ queue = {}
    /\ stats = EmptyStatistics
    /\ errors = <<>>
    /\ report = DefaultReport
    /\ pmatcher = EmptyMatcher
    /\ held = EmptyMatcher
    /\ added = NoAddition
    /\ probe = NoProbe
    /\ found = NoMatch

\* The PatternConfig of a configuration.
PatternsOf(config) ==
    [directories |-> config.directories, files |-> config.files,
     exclude |-> config.exclude]

\* config.merge_cli_args(cli.exclude, cli.include, cli.preserve_env)
MergeArgs ==
    /\ pc = "merge_input"
    /\ merged' = merge_cli_args(PatternsOf(cfg), args.exclude, args.include,
                                args.preserve_env)
    /\ pc' = "merged"
    /\ UNCHANGED <<tracker, calls, matchVars, args, remerged, items, pruned, repruned, cfg,
                   tree, fs, scanVars, cleanVars>>

\* merge_cli_args with the same arguments on the merged configuration.
MergeArgsAgain ==
    /\ pc = "merged"
    /\ remerged' = merge_cli_args(merged, args.exclude, args.include,
                                  args.preserve_env)
    /\ pc' = "remerged"
    /\ UNCHANGED <<tracker, calls, matchVars, args, merged, items, pruned, repruned, cfg,
                   tree, fs, scanVars, cleanVars>>

MergeNext == MergeArgs \/ MergeArgsAgain

SpecMerge == MergeInit /\ [][MergeNext]_vars

-----------------------------------------------------------------------------
(* Claims about the pruner.                                                *)

\* b is a strict component-wise prefix of a.
StrictPrefix(b, a) ==
    /\ Len(b) < Len(a)
    /\ \A i \in 1..Len(b) : b[i] = a[i]

HasPair(s) ==
    \E i, j \in 1..Len(s) : StrictPrefix(s[i].path, s[j].path)

\* C1: the output of prune_nested_items holds no two items of which one's
\* path is a strict component-wise prefix of the other's.
C1_AncestorExclusivity ==
    pc \in {"pruned", "repruned"} => ~HasPair(pruned)

\* C1 witness: an input with an ancestor/descendant pair has been pruned.
C1_Witness ==
    /\ pc = "pruned"
    /\ HasPair(items)
    /\ Len(pruned) >= 2

\* C2: pruning is idempotent, prune(prune(X)) = prune(X) as lists.
C2_IdempotentPruning ==
    pc = "repruned" => repruned = pruned

\* C2 witness: a result of several items, two of them with the same path, has
\* been pruned again after the first pass dropped something.
C2_Witness ==
    /\ pc = "repruned"
    /\ Len(pruned) < Len(items)
    /\ \E i, j \in 1..Len(pruned) : i # j /\ pruned[i].path = pruned[j].path

\* The items of the input no item of the input is a strict ancestor of.
Roots(s) ==
    {s[i] : i \in {k \in 1..Len(s) :
                     ~\E j \in 1..Len(s) : StrictPrefix(s[j].path, s[k].path)}}

\* C3: an item is kept exactly when no item of the input is a strict ancestor of
\* it; every dropped item has a strict ancestor among the kept ones; an input
\* without an ancestor/descendant pair is returned with all its items.
C3_KeptIffNoAncestor ==
    pc \in {"pruned", "repruned"} =>
        /\ Range(pruned) = Roots(items)
        /\ Len(pruned) = Cardinality(Roots(items))
        /\ \A x \in Range(items) \ Range(pruned) :
              \E k \in Range(pruned) : StrictPrefix(k.path, x.path)
        /\ (~HasPair(items) => Len(pruned) = Len(items))

\* C3 witness: a chain of three has been pruned; the deepest item was dropped
\* although its parent was dropped too.
C3_Witness ==
    /\ pc = "pruned"
    /\ Len(items) = 3
    /\ Len(pruned) = 1
    /\ \E i, j \in 1..3 :
          /\ StrictPrefix(items[i].path, items[j].path)
          /\ StrictPrefix(pruned[1].path, items[i].path)

-----------------------------------------------------------------------------
(* Claims about the scanner's candidates and the cleaner's reports.        *)

\* The base name of a path matches one of the configured exclusion patterns.
NameExcluded(path) ==
    \E i \in 1..Len(cfg.exclude) : GlobMatch(cfg.exclude[i], Last(path))

\* The base name of a node matches an include pattern its type is tested
\* against.
NameIncluded(n) ==
    \/ /\ n.kind \in {"dir", "symlink"}
       /\ \E i \in 1..Len(cfg.directories) :
             GlobMatch(cfg.directories[i], Last(n.path))
    \/ /\ n.kind \in {"file", "symlink"}
       /\ \E i \in 1..Len(cfg.files) : GlobMatch(cfg.files[i], Last(n.path))

\* Every candidate held anywhere in the pipeline: in a worker's accumulator, in
\* the scanner's result, in the pruned list, in the cleaner's work list.
Candidates ==
    UNION {Range(acc[w].items) : w \in Workers}
        \cup Range(items) \cup Range(pruned) \cup Range(work)

\* C4: an entry whose base name matches an exclusion pattern is never among the
\* scanner's candidates, whatever its file type and whatever include patterns
\* it matches as well.
C4_ExclusionPrecedence ==
    \A it \in Candidates : ~NameExcluded(it.path)

\* C4 witness: a scan that kept candidates has walked a directory, a file and
\* a symlink that each match an include pattern and an exclusion pattern.
C4_Witness ==
    /\ pc = "scanned"
    /\ items # <<>>
    /\ cfg.preserve_symlinks
    /\ \A k \in {"dir", "file", "symlink"} :
          \E n \in tree :
             /\ n.kind = k
             /\ Len(n.path) - Len(Root) <= cfg.max_depth
             /\ NameIncluded(n)
             /\ NameExcluded(n.path)

\* A live clean has returned its report.
LiveCleanDone ==
    /\ pc = "reported"
    /\ ~report.dry_run
    /\ work # <<>>

\* C5: a live clean of N items of which exactly one, k, cannot be deleted
\* reports items_deleted = N - 1 and one error, with k's path, and has removed
\* every other item.
C5_FailureIsolation ==
    (LiveCleanDone /\ Cardinality(locked) = 1) =>
        LET k == CHOOSE p \in locked : TRUE
        IN /\ report.items_deleted = Len(work) - 1
           /\ Len(report.errors) = 1
           /\ report.errors[1].path = k
           /\ \A i \in 1..Len(work) :
                 work[i].path # k => work[i].path \notin Paths(fs)

\* C5 witness: three items were cleaned, the one that could not be deleted was
\* the first one dispatched, and the two after it are gone.
C5_Witness ==
    /\ LiveCleanDone
    /\ Len(work) = 3
    /\ locked = {work[1].path}
    /\ work[1].path \in Paths(fs)
    /\ report.items_deleted = 2

\* The sum of the sizes of the items at the given indices.
RECURSIVE SizeOver(_, _)
SizeOver(its, idx) ==
    IF idx = {} THEN 0
    ELSE LET i == CHOOSE j \in idx : TRUE
         IN its[i].size + SizeOver(its, idx \ {i})

\* C6: a dry run changes nothing in the file system, and its report counts
\* every item passed in, sums their sizes, lists no error and has dry_run set.
C6_DryRunPurity ==
    (pc = "reported" /\ report.dry_run) =>
        /\ fs = tree
        /\ report.items_deleted = Len(pruned)
        /\ report.bytes_freed = SizeOver(pruned, DOMAIN pruned)
        /\ report.errors = <<>>

\* C6 witness: a dry run over a directory and a file with bytes to free.
C6_Witness ==
    /\ pc = "reported"
    /\ report.dry_run
    /\ \E i, j \in DOMAIN pruned :
          /\ pruned[i].item_type = "Directory" /\ pruned[i].size > 0
          /\ pruned[j].item_type = "File" /\ pruned[j].size > 0

\* The walk the scanner of the current configuration makes over the tree.
ScanWalk == WalkDir(tree, Root, cfg.max_depth, ~cfg.preserve_symlinks)

\* The sum of the len of the nodes of a set.
RECURSIVE LenOver(_)
LenOver(S) ==
    IF S = {} THEN 0
    ELSE LET n == CHOOSE x \in S : TRUE IN n.len + LenOver(S \ {n})

\* The regular files of the tree that have directory d as an ancestor.
FilesBeneath(d) ==
    {n \in tree : n.kind = "file" /\ StrictPrefix(d, n.path)}

\* The bytes of the entries of a walk that are files (or followed links to
\* files) with readable metadata and have directory d as an ancestor.
RECURSIVE WalkFileBytes(_, _)
WalkFileBytes(entries, d) ==
    IF entries = <<>> THEN 0
    ELSE LET e == Head(entries)
         IN (IF e.ok /\ e.md_ok /\ e.md_is_file /\ StrictPrefix(d, e.path)
             THEN e.len ELSE 0)
            + WalkFileBytes(Tail(entries), d)

\* The size the walk's entry for directory d reports for the directory
\* itself, 0 when its metadata cannot be read.
RECURSIVE WalkOwnBytes(_, _)
WalkOwnBytes(entries, d) ==
    IF entries = <<>> THEN 0
    ELSE LET e == Head(entries)
         IN (IF e.ok /\ e.md_ok /\ e.file_type = "dir" /\ e.path = d
             THEN e.len ELSE 0)
            + WalkOwnBytes(Tail(entries), d)

DirectoryItems(its) ==
    {its[i] : i \in {k \in DOMAIN its : its[k].item_type = "Directory"}}

\* C7 as stated: the size of every directory the scan returns is the sum of
\* the sizes of the regular files that have it as an ancestor.
C7_SizeIsFileBytesOnly ==
    pc = "scanned" =>
        \A D \in DirectoryItems(items) : D.size = LenOver(FilesBeneath(D.path))

\* C7 amended: the size of every directory the scan returns is the size its
\* own metadata reports plus the sizes of the files the walk yielded beneath
\* it (regular files and followed links to files, with readable metadata,
\* within max_depth).
C7_AggregationCorrectness ==
    pc = "scanned" =>
        \A D \in DirectoryItems(items) :
            D.size = WalkOwnBytes(ScanWalk, D.path)
                        + WalkFileBytes(ScanWalk, D.path)

\* C7 witness: /root/a with x.txt of 100 bytes and b/y.txt of 50 bytes was
\* scanned in full, the directory itself having a size of its own.
C7_Witness ==
    /\ pc = "scanned"
    /\ cfg.scenario = "Nested"
    /\ NodeAt(tree, Root \o <<n_a>>).len > 0
    /\ \E D \in DirectoryItems(items) :
          /\ D.path = Root \o <<n_a>>
          /\ D.size = 150 + NodeAt(tree, Root \o <<n_a>>).len

\* A scan by one worker: every entry of the walk folded into one accumulator.
RECURSIVE FoldAll(_, _)
FoldAll(a, entries) ==
    IF entries = <<>> THEN a
    ELSE FoldAll(FoldEntry(a, Head(entries), Matcher, Root), Tail(entries))

\* Two lists hold the same elements the same number of times.
SameElements(s, t) ==
    /\ Len(s) = Len(t)
    /\ \A x \in Range(s) \cup Range(t) :
          Cardinality({i \in DOMAIN s : s[i] = x})
              = Cardinality({i \in DOMAIN t : t[i] = x})

SameAccumulator(a, b) ==
    /\ SameElements(a.items, b.items)
    /\ SameElements(a.errors, b.errors)
    /\ SameElements(a.file_sizes, b.file_sizes)
    /\ SameElements(a.dir_bases, b.dir_bases)

\* C8: however the entries were split among the workers and in whatever order
\* the accumulators were merged, the scan returns the candidates (with their
\* sizes) and the failures a single worker returns, order ignored; merging the
\* workers' accumulators is associative, commutative up to order, and has the
\* empty accumulator as identity.
C8_PartitionIndependence ==
    /\ pc = "scanned" =>
          /\ SameElements(items,
                 Aggregate(FoldAll(EmptyAccumulator, ScanWalk), Root))
          /\ SameElements(scan_errors,
                 FoldAll(EmptyAccumulator, ScanWalk).errors)
    /\ pc = "scanning" =>
          \A u, v, w \in Workers :
             /\ Merge(Merge(acc[u], acc[v]), acc[w])
                   = Merge(acc[u], Merge(acc[v], acc[w]))
             /\ SameAccumulator(Merge(acc[u], acc[v]), Merge(acc[v], acc[u]))
             /\ Merge(acc[u], EmptyAccumulator) = acc[u]
             /\ Merge(EmptyAccumulator, acc[u]) = acc[u]

\* C8 witness: a scan whose candidates came from two workers, merged in an
\* order other than the walk's, with a directory size put together from
\* entries folded by both.
C8_Witness ==
    /\ pc = "scanned"
    /\ Len(items) >= 3
    /\ items # Aggregate(FoldAll(EmptyAccumulator, ScanWalk), Root)
    /\ \E D \in DirectoryItems(items) : D.size > NodeAt(tree, D.path).len

\* The end-to-end tree is scanned to the depth of node_modules/pkg/dist.
EndToEndRun ==
    /\ cfg.scenario = "EndToEnd"
    /\ cfg.max_depth >= 3

EndToEndKept ==
    {Root \o <<n_node_modules>>, Root \o <<n_dist>>, Root \o <<n_app_log>>}

\* The part of C9 before the report: the scan yields 4 candidates, pruning
\* yields exactly node_modules, dist and app.log.
EndToEndCandidates ==
    /\ pc = "scanned" => Len(items) = 4
    /\ pc \in {"ready", "cleaning", "drained", "reported"} =>
          /\ Len(pruned) = 3
          /\ ItemPaths(pruned) = EndToEndKept

\* C9 as stated: 4 candidates, 3 after pruning, and a live clean reports
\* items_deleted = 3 and bytes_freed = 210 and leaves none of the three paths.
C9_BytesFreedIs210 ==
    EndToEndRun =>
        /\ EndToEndCandidates
        /\ (LiveCleanDone /\ locked = {}) =>
              /\ report.items_deleted = 3
              /\ report.bytes_freed = 210
              /\ EndToEndKept \cap Paths(fs) = {}

\* C9 amended: 4 candidates, 3 after pruning, and a live clean reports
\* items_deleted = 3 and bytes_freed = 210 plus the sizes the file system
\* reports for the directories node_modules and dist themselves, and leaves
\* none of the three paths.
C9_EndToEnd ==
    EndToEndRun =>
        /\ EndToEndCandidates
        /\ (LiveCleanDone /\ locked = {}) =>
              /\ report.items_deleted = 3
              /\ report.bytes_freed =
                    210 + NodeAt(tree, Root \o <<n_node_modules>>).len
                        + NodeAt(tree, Root \o <<n_dist>>).len
              /\ EndToEndKept \cap Paths(fs) = {}

\* C9 witness: the live clean of the end-to-end tree has reported, the
\* directories having a size of their own.
C9_Witness ==
    /\ EndToEndRun
    /\ LiveCleanDone
    /\ locked = {}
    /\ NodeAt(tree, Root \o <<n_dist>>).len > 0
    /\ report.bytes_freed > 210
    /\ Root \o <<n_node_modules, n_pkg, n_dist>> \notin Paths(fs)

\* The symlinks of the tree that resolve to one of their own ancestor
\* directories and lie within the depth the scan walks to.
AncestorLinks ==
    {n \in tree : /\ n.kind = "symlink"
                  /\ StrictPrefix(n.target, n.path)
                  /\ Len(n.path) - Len(Root) <= cfg.max_depth}

\* C10 as stated: for either value of follow_symlinks a link to one of its own
\* ancestors is among the scan errors as SymlinkCycle.
C10_CycleReportedEitherWay ==
    pc = "scanned" =>
        \A n \in AncestorLinks : SymlinkCycle(n.path) \in Range(scan_errors)

\* C10 amended: when links are followed, a link to one of its own ancestors is
\* among the scan errors as SymlinkCycle; when they are not, it is walked as a
\* plain entry and no SymlinkCycle is reported; either way nothing beneath the
\* link is a candidate, and the scan terminates.
C10_SymlinkCycle ==
    /\ [](pc = "scanned" =>
            \A n \in AncestorLinks :
               /\ ~cfg.preserve_symlinks =>
                     /\ SymlinkCycle(n.path) \in Range(scan_errors)
                     /\ n.path \notin ItemPaths(items)
               /\ cfg.preserve_symlinks =>
                     /\ \A e \in Range(scan_errors) : e.kind # "SymlinkCycle"
                     /\ NameIncluded(n) => n.path \in ItemPaths(items)
               /\ \A it \in Range(items) : ~StrictPrefix(n.path, it.path))
    /\ (pc = "scanning" ~> pc = "scanned")

\* C10 witness: a scan that follows links has ended with the link a/b/cycle,
\* which leads back to the root, reported as a cycle.
C10_Witness ==
    /\ pc = "scanned"
    /\ ~cfg.preserve_symlinks
    /\ AncestorLinks # {}
    /\ \E e \in Range(scan_errors) : e.kind = "SymlinkCycle"

-----------------------------------------------------------------------------
(* Claims about the failures of a scan.                                    *)

\* The walk gets to node n without passing through a failing path: n lies
\* below the root within max_depth, under directories that can be read.
Reachable(n) ==
    /\ StrictPrefix(Root, n.path)
    /\ Len(n.path) - Len(Root) <= cfg.max_depth
    /\ \A k \in Len(Root)..(Len(n.path) - 1) :
          /\ SubSeq(n.path, 1, k) \in Paths(tree)
          /\ NodeAt(tree, SubSeq(n.path, 1, k)).kind = "dir"
          /\ NodeAt(tree, SubSeq(n.path, 1, k)).readable

\* The failures the walk of the tree runs into: a directory that cannot be
\* read, and, when links are followed, a link whose target has vanished and a
\* link back to one of its ancestors.
TraversalFailures ==
    {IoError(n.path) : n \in {x \in tree :
        /\ Reachable(x)
        /\ x.kind = "dir" /\ ~x.readable
        /\ Len(x.path) - Len(Root) < cfg.max_depth}}
    \cup
    {IoError(n.path) : n \in {x \in tree :
        /\ Reachable(x)
        /\ x.kind = "symlink" /\ ~cfg.preserve_symlinks
        /\ x.target \notin Paths(tree)}}
    \cup
    {SymlinkCycle(n.path) : n \in {x \in AncestorLinks :
        Reachable(x) /\ ~cfg.preserve_symlinks}}

\* C11: a failure of the walk does not end the scan: the scan returns, every
\* such failure is in its error list, and every file or directory the walk
\* can get to whose name matches an include pattern (and no exclusion) is
\* among the candidates.
C11_ScanSurvivesFailures ==
    pc = "scanned" =>
        /\ TraversalFailures \subseteq Range(scan_errors)
        /\ \A n \in tree :
              (/\ Reachable(n)
               /\ n.kind \in {"dir", "file"}
               /\ n.md_ok
               /\ NameIncluded(n)
               /\ ~NameExcluded(n.path))
              => n.path \in ItemPaths(items)

\* C11 witness: a scan that met an unreadable directory and a vanished link
\* target has returned, with the matching files walked before and after them
\* among its candidates.
C11_Witness ==
    /\ pc = "scanned"
    /\ IoError(Root \o <<n_restricted>>) \in Range(scan_errors)
    /\ IoError(Root \o <<n_lost>>) \in Range(scan_errors)
    /\ {Root \o <<n_ok_log>>, Root \o <<n_tmp_log>>} \subseteq ItemPaths(items)

\* The file and symlink entries of the walk whose metadata cannot be fetched:
\* a file, or a symlink that is not followed, with unreadable metadata.
MetadataFailures ==
    {n \in tree : /\ Reachable(n)
                  /\ ~n.md_ok
                  /\ \/ n.kind = "file"
                     \/ n.kind = "symlink" /\ cfg.preserve_symlinks}

\* What the scan of this configuration returns for a tree, by one worker.
ScanOf(nodes) ==
    Aggregate(FoldAll(EmptyAccumulator,
                      WalkDir(nodes, Root, cfg.max_depth,
                              ~cfg.preserve_symlinks)),
              Root)

\* C12: a file or symlink whose metadata cannot be fetched gets an IoError
\* for its path, is no candidate even though its name matches, and adds
\* nothing to a directory's total: every directory has the size it has in a
\* scan of the tree without these entries.
C12_MetadataFailure ==
    pc = "scanned" =>
        /\ \A n \in MetadataFailures :
              /\ IoError(n.path) \in Range(scan_errors)
              /\ n.path \notin ItemPaths(items)
        /\ \A D \in DirectoryItems(items) :
              \E E \in DirectoryItems(ScanOf(tree \ MetadataFailures)) :
                  E.path = D.path /\ E.size = D.size

\* C12 witness: a scan has returned the directory dist, in which a file and a
\* symlink with matching names and unreadable metadata lie beside a file of
\* 200 bytes.
C12_Witness ==
    /\ pc = "scanned"
    /\ \E n, l \in MetadataFailures :
          /\ n.kind = "file" /\ l.kind = "symlink"
          /\ NameIncluded(n) /\ NameIncluded(l)
          /\ n.len > 0 /\ l.len > 0
    /\ \E D \in DirectoryItems(items) :
          /\ D.path = Root \o <<n_dist>>
          /\ D.size = 200 + NodeAt(tree, D.path).len

\* C13: no path for which the scan recorded a failure, IoError or
\* SymlinkCycle, is among the candidates it returns, directories included.
C13_FailedPathsExcluded ==
    pc = "scanned" =>
        \A e \in Range(scan_errors) : e.path \notin ItemPaths(items)

-----------------------------------------------------------------------------
(* Claims about the matcher.                                               *)

\* The indices of the patterns of a list that match the probed name.
Hits(patterns) ==
    {i \in DOMAIN patterns : GlobMatch(patterns[i], Last(probe.path))}

\* The answer in `found` comes from the given list.
FoundIn(patterns) ==
    /\ found # NoMatch
    /\ found.priority + 1 \in Hits(patterns)
    /\ found.pattern = patterns[found.priority + 1]

\* `found` is the answer of the matcher in `pmatcher` to the call in `probe`,
\* for a name no exclusion pattern matches.
Answered ==
    /\ pc \in {"built", "added_probed"}
    /\ probe # NoProbe
    /\ Hits(pmatcher.exclude_patterns) = {}

\* C14: an entry hinted as a directory is tested against the directory
\* patterns only, one hinted as a file against the file patterns only, a
\* symlink or an entry without hint against both, the directory list first.
C14_TypeGating ==
    Answered =>
        LET dirs == pmatcher.directory_patterns
            files == pmatcher.file_patterns
        IN /\ probe.file_type = "dir" =>
                 IF Hits(dirs) # {} THEN FoundIn(dirs) ELSE found = NoMatch
           /\ probe.file_type = "file" =>
                 IF Hits(files) # {} THEN FoundIn(files) ELSE found = NoMatch
           /\ probe.file_type \in {"symlink", "none"} =>
                 IF Hits(dirs) # {} THEN FoundIn(dirs)
                 ELSE IF Hits(files) # {} THEN FoundIn(files)
                 ELSE found = NoMatch

\* C14 witness: a symlink whose name matches patterns of both lists was
\* answered with the directory pattern, which is not the pattern the file list
\* gives.
C14_Witness ==
    /\ Answered
    /\ probe.file_type = "symlink"
    /\ Hits(pmatcher.directory_patterns) # {}
    /\ Hits(pmatcher.file_patterns) # {}
    /\ found # FirstMatch(pmatcher.file_patterns, Last(probe.path))
    /\ found # NoMatch

\* The list the answer to the probe is taken from: the directory list for a
\* directory, and for a symlink or an entry without hint when one of its
\* patterns matches; the file list otherwise.
ListAsked ==
    IF \/ probe.file_type = "dir"
       \/ /\ probe.file_type \in {"symlink", "none"}
          /\ Hits(pmatcher.directory_patterns) # {}
    THEN pmatcher.directory_patterns
    ELSE pmatcher.file_patterns

\* C15: within a list the first pattern in declaration order that matches the
\* base name wins: the match carries that pattern's text, its priority is the
\* pattern's index in the list, and no pattern before it matches the name.
C15_FirstPatternWins ==
    (Answered /\ found # NoMatch) =>
        /\ found.priority \in 0..(Len(ListAsked) - 1)
        /\ found.pattern = ListAsked[found.priority + 1]
        /\ GlobMatch(found.pattern, Last(probe.path))
        /\ \A i \in 1..found.priority :
              ~GlobMatch(ListAsked[i], Last(probe.path))

\* C15 witness: the answer is the second pattern of a list whose third pattern
\* matches the name too.
C15_Witness ==
    /\ Answered
    /\ found # NoMatch
    /\ found.priority = 1
    /\ Len(ListAsked) >= 3
    /\ GlobMatch(ListAsked[3], Last(probe.path))

\* One of the strings of the configured pattern lists is no glob.
InvalidGlobConfigured ==
    \E list \in {cfg.directories, cfg.files, cfg.exclude} :
        \E i \in DOMAIN list : ~Pattern_new_ok(list[i])

\* C16: a string that is no glob in the directory, file or exclude list makes
\* the construction of the matcher fail, and Cleaner::clean return that error
\* before anything is scanned or deleted; it never shows as a failure in a
\* report.  Without such a string no pattern error is returned.
C16_InvalidGlobIsFatal ==
    /\ InvalidGlobConfigured =>
          /\ pc \in {"start", "pattern_error"}
          /\ fs = tree
          /\ walk = <<>>
          /\ \A w \in Workers : acc[w] = EmptyAccumulator
          /\ items = <<>> /\ scan_errors = <<>> /\ errors = <<>>
          /\ report = DefaultReport
    /\ pc = "pattern_error" => InvalidGlobConfigured

\* C16 witness: clean has returned the pattern error for a configuration whose
\* lists match entries of the tree and whose exclude list ends in "***".
C16_Witness ==
    /\ pc = "pattern_error"
    /\ p_three_stars \in Range(cfg.exclude)
    /\ \E n \in tree : NameIncluded(n)

\* C17: patterns added with add_include_patterns rank below the patterns
\* already present: a name and hint that matched before the addition get the
\* same pattern with the same priority after it.
C17_AddedPatternsRankLower ==
    pc = "added_probed" =>
        LET before == matches_with_type(held, probe.path, probe.file_type)
        IN before # NoMatch => found = before

-----------------------------------------------------------------------------
(* Claims about where the candidates of a scan lie.                        *)

\* C18: every candidate's path is the scan root extended by at least one
\* component: the root itself is never a candidate, and nothing outside the
\* root is.
C18_CandidatesBelowRoot ==
    \A it \in Candidates : StrictPrefix(Root, it.path)

\* C18 witness: a scan with a directory rule that matches the root's own name
\* has returned candidates.
C18_Witness ==
    /\ pc = "scanned"
    /\ items # <<>>
    /\ matches_with_type(Matcher, Root, "dir") # NoMatch

\* C19: no candidate lies more than max_depth components below the root, and
\* with max_depth 0 the scan returns no candidate.
C19_DepthLimit ==
    /\ \A it \in Candidates : Len(it.path) - Len(Root) <= cfg.max_depth
    /\ (pc = "scanned" /\ cfg.max_depth = 0) => items = <<>>

\* C19 witness: a scan to depth 2 has returned candidates, the tree holding
\* an entry with a matching name at depth 3 under readable directories.
C19_Witness ==
    /\ pc = "scanned"
    /\ cfg.max_depth = 2
    /\ items # <<>>
    /\ \E n \in tree :
          /\ Len(n.path) - Len(Root) = 3
          /\ n.kind = "dir"
          /\ NameIncluded(n)
          /\ \A k \in Len(Root)..(Len(n.path) - 1) :
                NodeAt(tree, SubSeq(n.path, 1, k)).readable

-----------------------------------------------------------------------------
(* Claims about what a live clean removes.                                 *)

\* The items of type Symlink the live clean has removed.
RemovedLinks ==
    {work[i] : i \in {k \in DOMAIN work :
                        /\ work[k].item_type = "Symlink"
                        /\ work[k].path \notin Paths(fs)}}

\* Node n is, or lies under, an item of the batch.
InBatch(n) ==
    \E j \in DOMAIN work : starts_with(n.path, work[j].path)

\* C20: deleting an item of type Symlink removes the link and does not follow
\* it: the link's target and everything beneath the target still exists,
\* unless it is or lies under an item of the batch.
C20_SymlinkNotFollowed ==
    pc \in {"cleaning", "drained", "reported"} =>
        \A l \in RemovedLinks :
            \A n \in tree :
                (starts_with(n.path, NodeAt(tree, l.path).target) /\ ~InBatch(n))
                    => n \in fs

\* C20 witness: a live clean has removed a link to a directory, and the
\* directory is still there with what it holds.
C20_Witness ==
    /\ LiveCleanDone
    /\ \E l \in RemovedLinks :
          LET t == NodeAt(tree, l.path).target
          IN /\ t \in Paths(fs)
             /\ NodeAt(fs, t).kind = "dir"
             /\ \E n \in fs : StrictPrefix(t, n.path)

-----------------------------------------------------------------------------
(* Claims about the schedule of a live clean.                              *)

\* The outcome of deleting the items its[i..] one after the other in list
\* order, ps[j] telling what a failing removal of item j leaves behind.
RECURSIVE SeqClean(_, _, _, _, _)
SeqClean(nodes, lockedPaths, its, ps, i) ==
    IF i > Len(its)
    THEN [fs |-> nodes, deleted |-> 0, bytes |-> 0, failed |-> {}]
    ELSE LET res == delete_item(nodes, lockedPaths, its[i], ps[i])
             rest == SeqClean(res.fs, lockedPaths, its, ps, i + 1)
         IN IF res.ok
            THEN [rest EXCEPT !.deleted = @ + 1, !.bytes = @ + its[i].size]
            ELSE [rest EXCEPT !.failed = @ \cup {its[i].path}]

\* C21: for a pruned item list the outcome of a live clean is the same in
\* every schedule: what is left of the file system, items_deleted,
\* bytes_freed and the set of failures are those of deleting the items one
\* after the other in list order.
C21_ScheduleIndependence ==
    LiveCleanDone =>
        \E ps \in [DOMAIN work -> BOOLEAN] :
            LET o == SeqClean(tree, locked, work, ps, 1)
            IN /\ fs = o.fs
               /\ report.items_deleted = o.deleted
               /\ report.bytes_freed = o.bytes
               /\ {e.path : e \in Range(report.errors)} = o.failed

-----------------------------------------------------------------------------
(* Claims about the report of Cleaner::clean.                              *)

\* The number of entries of the report's error list for a path.
ErrorsFor(path) ==
    Cardinality({j \in DOMAIN report.errors : report.errors[j].path = path})

\* C22: Cleaner::clean returns a report that keeps every failure: scan_errors
\* is the scan's error list, with every failure of the walk and of fetching
\* metadata in it, and after a live clean errors holds one entry, with the
\* path, for each item that could not be deleted and none for the others,
\* also when every item fails and when no item is left.
C22_FailuresReported ==
    pc = "reported" =>
        /\ report.scan_errors = scan_errors
        /\ TraversalFailures \subseteq Range(report.scan_errors)
        /\ \A n \in MetadataFailures : IoError(n.path) \in Range(report.scan_errors)
        /\ LiveCleanDone =>
              /\ Len(report.errors) + report.items_deleted = Len(work)
              /\ \A i \in DOMAIN work :
                    /\ ErrorsFor(work[i].path) <= 1
                    /\ work[i].path \in locked => ErrorsFor(work[i].path) = 1
                    /\ Resolve(fs, work[i].path) \in Paths(fs)
                          => ErrorsFor(work[i].path) = 1

\* C22 witness: a scan that recorded failures was followed by a live clean in
\* which every one of several items failed, and the report lists them all.
C22_Witness ==
    /\ LiveCleanDone
    /\ Len(work) >= 2
    /\ report.items_deleted = 0
    /\ Len(report.errors) = Len(work)
    /\ report.scan_errors # <<>>
    /\ {work[i].path : i \in DOMAIN work} \cap Paths(fs) # {}

-----------------------------------------------------------------------------
(* Claims about the safety options.                                        *)

\* The entries below the root named .env or .env.example.
EnvEntries ==
    {n \in tree : /\ StrictPrefix(Root, n.path)
                  /\ Last(n.path) \in {n_env, n_env_example}}

\* C23: with preserve_env merged into the configuration, every entry named
\* .env or .env.example still exists after a live clean, also beneath a
\* directory that matched an include pattern.
C23_EnvPreserved ==
    (LiveCleanDone /\ {n_env, n_env_example} \subseteq Range(cfg.exclude))
        => EnvEntries \subseteq fs

\* C24: with check_git_repo enabled and .git in the root or an ancestor of
\* it, nothing is deleted, through the CLI and through Cleaner::clean alike.
C24_GitRepoUntouched ==
    (cfg.check_git_repo /\ is_git_repo(tree, Root)) => fs = tree

-----------------------------------------------------------------------------
(* Claims about the ancestor test and the order of the pruner's result.    *)

\* A path written out as a string, /name/name.
RECURSIVE PathString(_)
PathString(path) ==
    IF path = <<>> THEN <<>>
    ELSE <<"/">> \o Head(path) \o PathString(Tail(path))

\* The string s begins the string t.
IsStringPrefix(s, t) ==
    /\ Len(s) <= Len(t)
    /\ SubSeq(t, 1, Len(s)) = s

\* b begins a as a string without being a component-wise prefix of it, as
\* /a/b begins /a/bc.
StringPrefixOnly(b, a) ==
    /\ IsStringPrefix(PathString(b), PathString(a))
    /\ b # a
    /\ ~StrictPrefix(b, a)

\* C25: is_ancestor(B, A) holds exactly when A starts with all components of B
\* and A # B; no path is its own ancestor, so two items with the same path
\* are kept or dropped together; a path that begins another as a string only
\* is not its ancestor.
C25_StrictComponentPrefix ==
    /\ \A i, j \in DOMAIN items :
          LET b == items[i].path
              a == items[j].path
          IN /\ is_ancestor(b, a) <=> StrictPrefix(b, a)
             /\ a = b => ~is_ancestor(b, a)
             /\ StringPrefixOnly(b, a) => ~is_ancestor(b, a)
    /\ pc \in {"pruned", "repruned"} =>
          \A i, j \in DOMAIN items :
             items[i].path = items[j].path =>
                (items[i] \in Range(pruned) <=> items[j] \in Range(pruned))

\* C25 witness: two items with the same path and an item whose path the
\* former begin as a string only have all survived pruning.
C25_Witness ==
    /\ pc = "pruned"
    /\ \E i, j, k \in DOMAIN items :
          /\ i # j
          /\ items[i].path = items[j].path
          /\ StringPrefixOnly(items[i].path, items[k].path)
          /\ {items[i], items[j], items[k]} \subseteq Range(pruned)

\* The paths of a list are pairwise distinct.
DistinctPaths(s) ==
    \A i, j \in DOMAIN s : i # j => s[i].path # s[j].path

\* The list s with its items k and k + 1 exchanged.
Swapped(s, k) ==
    [i \in DOMAIN s |-> IF i = k THEN s[k + 1]
                        ELSE IF i = k + 1 THEN s[k]
                        ELSE s[i]]

\* Path p comes before path q: it has fewer components, or as many and is
\* the smaller one component by component.
PathBefore(p, q) ==
    \/ Len(p) < Len(q)
    \/ /\ Len(p) = Len(q)
       /\ \E k \in 1..Len(p) :
             /\ \A i \in 1..(k - 1) : p[i] = q[i]
             /\ NameCmp(p[k], q[k]) < 0

\* C26: for an input with pairwise distinct paths the result of pruning is
\* the same list whatever the order of the input, and it is ordered by
\* ascending depth and by path within a depth.  The inputs are all the lists
\* over the paths, so every order of an input is reached from it by
\* exchanging neighbours, and the result is the same after each exchange.
C26_OrderIndependence ==
    (pc = "pruned" /\ DistinctPaths(items)) =>
        /\ \A k \in 1..(Len(items) - 1) :
              prune_nested_items(Swapped(items, k)) = pruned
        /\ \A i, j \in DOMAIN pruned :
              i < j => PathBefore(pruned[i].path, pruned[j].path)

\* C26 witness: an input of three distinct paths, given deepest first and, in
\* a depth, largest first, has been pruned to more than one item.
C26_Witness ==
    /\ pc = "pruned"
    /\ DistinctPaths(items)
    /\ Len(items) = 3
    /\ PathBefore(items[3].path, items[2].path)
    /\ PathBefore(items[2].path, items[1].path)
    /\ Len(items[2].path) = Len(items[1].path)
    /\ Len(pruned) >= 2

-----------------------------------------------------------------------------
(* Claims about the candidate list and the sizes of a scan.                *)

\* The entries the walk yields below the root.
Visited ==
    {ScanWalk[i] : i \in {k \in DOMAIN ScanWalk :
                            ScanWalk[k].ok /\ ScanWalk[k].path # Root}}

\* The matcher returns a match for the entry's name and file type.
EntryMatches(e) ==
    matches_with_type(Matcher, e.path, e.file_type) # NoMatch

\* The entries of the walk that are to be candidates.
Matching ==
    {e \in Visited :
        /\ EntryMatches(e)
        /\ e.file_type \in {"file", "symlink"} => e.md_ok}

\* C27: the candidates a scan returns are exactly the visited entries other
\* than the root that the matcher matches and, for files and symlinks, whose
\* metadata could be fetched; each of them appears once, with the match the
\* matcher returned.
C27_CandidatesExact ==
    pc = "scanned" =>
        /\ ItemPaths(items) = {e.path : e \in Matching}
        /\ Len(items) = Cardinality(Matching)
        /\ \A i \in DOMAIN items :
              \E e \in Matching :
                 /\ e.path = items[i].path
                 /\ items[i].pattern =
                       matches_with_type(Matcher, e.path, e.file_type)
                 /\ items[i].item_type = determine_type(e.file_type)

\* C27 witness: a scan has returned several candidates, a directory among
\* them, from a walk that also met an entry no rule matches and a matching
\* file whose metadata could not be fetched.
C27_Witness ==
    /\ pc = "scanned"
    /\ Len(items) >= 2
    /\ \E i \in DOMAIN items : items[i].item_type = "Directory"
    /\ \E e \in Visited : ~EntryMatches(e)
    /\ \E e \in Visited : EntryMatches(e) /\ e \notin Matching

\* A scan by one worker with a given matcher.
RECURSIVE FoldAllWith(_, _, _)
FoldAllWith(a, entries, matcher) ==
    IF entries = <<>> THEN a
    ELSE FoldAllWith(FoldEntry(a, Head(entries), matcher, Root),
                     Tail(entries), matcher)

\* What the scan of the tree returns under another pattern configuration.
ScanWith(patterns) ==
    Aggregate(FoldAllWith(EmptyAccumulator, ScanWalk,
                          PatternMatcher_new(patterns)),
              Root)

\* Rules added to the configuration: every file an include, the directories
\* b, pkg and dist includes, every name with a dot excluded.
AddedRules ==
    {[include |-> <<p_star>>, exclude |-> <<>>],
     [include |-> <<n_b, n_pkg, n_dist>>, exclude |-> <<>>],
     [include |-> <<>>, exclude |-> <<p_star_dot_star>>]}

\* The configuration with added rules.
WithRules(r) == merge_cli_args(cfg, r.exclude, r.include, FALSE)

\* C28: the size of a matched directory counts the bytes of every regular
\* file the walk yields beneath it, whether the file matches an include
\* pattern, an exclusion pattern, or lies in another matched directory
\* inside it: the size is the same in the scan under a configuration in
\* which files or directories beneath it are candidates in addition, or are
\* excluded.
C28_SizeIgnoresMatching ==
    pc = "scanned" =>
        \A D \in DirectoryItems(items) :
            /\ D.size >= WalkFileBytes(ScanWalk, D.path)
            /\ \A r \in AddedRules :
                  \A E \in DirectoryItems(ScanWith(WithRules(r))) :
                      E.path = D.path => E.size = D.size

\* C28 witness: a matched directory holds files; under added rules a
\* directory inside it and a file inside it are candidates as well, and under
\* an added exclusion a file inside it is excluded, while it is still one.
C28_Witness ==
    /\ pc = "scanned"
    /\ \E D \in DirectoryItems(items) :
          /\ WalkFileBytes(ScanWalk, D.path) > 0
          /\ \E r \in AddedRules :
                LET other == ScanWith(WithRules(r))
                IN /\ D.path \in ItemPaths(other)
                   /\ \E E \in DirectoryItems(other) :
                         StrictPrefix(D.path, E.path)
          /\ \E r \in AddedRules :
                LET other == ScanWith(WithRules(r))
                IN /\ D.path \in ItemPaths(other)
                   /\ \E i \in DOMAIN other :
                         /\ other[i].item_type = "File"
                         /\ StrictPrefix(D.path, other[i].path)
                         /\ other[i].path \notin ItemPaths(items)
          /\ \E r \in AddedRules :
                /\ r.exclude # <<>>
                /\ D.path \in ItemPaths(ScanWith(WithRules(r)))
                /\ \E e \in Visited :
                      /\ e.file_type = "file"
                      /\ StrictPrefix(D.path, e.path)
                      /\ is_excluded(PatternMatcher_new(WithRules(r)), e.path)

-----------------------------------------------------------------------------
(* Claims about merge_cli_args.                                            *)

\* List t is list s with patterns appended, none of them in s, none twice.
AppendedOnly(s, t) ==
    /\ Len(s) <= Len(t)
    /\ SubSeq(t, 1, Len(s)) = s
    /\ \A i \in (Len(s) + 1)..Len(t) :
          /\ t[i] \notin Range(s)
          /\ \A j \in (Len(s) + 1)..Len(t) : t[i] = t[j] => i = j

\* The CLI includes that hold a dot or a star.
DottedOrStarred(include) ==
    {q \in Range(include) : "." \in Range(q) \/ "*" \in Range(q)}

\* C29: merge_cli_args only appends and never duplicates: the lists of the
\* configuration are kept in front as they were, every CLI exclude and, with
\* preserve_env, .env and .env.example are in the exclude list, every CLI
\* include with a dot or a star is in the files list and every other in the
\* directories list, nothing else is added and nothing is added twice; the
\* same arguments applied again change nothing.
C29_MergeAppendsOnce ==
    /\ pc \in {"merged", "remerged"} =>
          /\ AppendedOnly(cfg.exclude, merged.exclude)
          /\ AppendedOnly(cfg.files, merged.files)
          /\ AppendedOnly(cfg.directories, merged.directories)
          /\ Range(merged.exclude) =
                Range(cfg.exclude) \cup Range(args.exclude)
                   \cup (IF args.preserve_env THEN {n_env, n_env_example}
                         ELSE {})
          /\ Range(merged.files) =
                Range(cfg.files) \cup DottedOrStarred(args.include)
          /\ Range(merged.directories) =
                Range(cfg.directories)
                   \cup (Range(args.include) \ DottedOrStarred(args.include))
    /\ pc = "remerged" => remerged = merged

\* C29 witness: a command line with a repeated include of either kind and
\* preserve_env was merged twice into a configuration that held .env already
\* and a directory rule twice.
C29_Witness ==
    /\ pc = "remerged"
    /\ args.preserve_env
    /\ n_env \in Range(cfg.exclude)
    /\ Len(args.include) > Cardinality(Range(args.include))
    /\ Len(cfg.directories) > Cardinality(Range(cfg.directories))
    /\ Len(merged.files) > Len(cfg.files)
    /\ Len(merged.directories) > Len(cfg.directories)
    /\ Len(merged.exclude) = Len(cfg.exclude) + 1

-----------------------------------------------------------------------------
(* Claims about the aggregated size in terms of what the scan recorded.    *)

\* What the fold of the whole walk records, before aggregation.
Recorded == FoldAll(EmptyAccumulator, ScanWalk)

\* The sum of the sizes recorded in a list of (path, size) pairs at the
\* positions of a set.
RECURSIVE RecordedOver(_, _)
RecordedOver(pairs, idx) ==
    IF idx = {} THEN 0
    ELSE LET i == CHOOSE j \in idx : TRUE
         IN pairs[i][2] + RecordedOver(pairs, idx \ {i})

\* The own size recorded for the directory entry d.
OwnRecorded(d) ==
    RecordedOver(Recorded.dir_bases,
                 {i \in DOMAIN Recorded.dir_bases :
                     Recorded.dir_bases[i][1] = d})

\* The positions of the recorded files that have d as an ancestor.
FilesRecordedBeneath(d) ==
    {i \in DOMAIN Recorded.file_sizes :
        LET file_path == Recorded.file_sizes[i][1]
        IN is_ancestor(d, file_path) /\ starts_with(d, Root)}

\* The positions of the recorded directory entries beneath d.
DirsRecordedBeneath(d) ==
    {i \in DOMAIN Recorded.dir_bases : is_ancestor(d, Recorded.dir_bases[i][1])}

\* C30: after aggregation the size of a candidate directory is its own
\* recorded directory-entry size plus the sizes of the recorded files that
\* have it as a strict ancestor; the own sizes of the directories beneath it
\* are not in it, and without recorded files beneath it the size is that of
\* the directory entry itself.
C30_OwnSizePlusRecordedFiles ==
    pc = "scanned" =>
        \A D \in DirectoryItems(items) :
            /\ D.size = OwnRecorded(D.path)
                          + RecordedOver(Recorded.file_sizes,
                                         FilesRecordedBeneath(D.path))
            /\ FilesRecordedBeneath(D.path) = {} =>
                  D.size = OwnRecorded(D.path)

\* C30 witness: the end-to-end tree scanned with directory entries of 4096
\* bytes: node_modules, with two directories and no file beneath it, and the
\* empty node_modules/pkg/dist have 4096 bytes each, dist has 4296.
C30_Witness ==
    /\ pc = "scanned"
    /\ cfg.scenario = "EndToEnd"
    /\ \E D, E, F \in DirectoryItems(items) :
          /\ D.path = Root \o <<n_node_modules>>
          /\ Cardinality(DirsRecordedBeneath(D.path)) = 2
          /\ FilesRecordedBeneath(D.path) = {}
          /\ D.size = 4096
          /\ E.path = Root \o <<n_node_modules, n_pkg, n_dist>>
          /\ E.size = 4096
          /\ F.path = Root \o <<n_dist>>
          /\ F.size = 4296

-----------------------------------------------------------------------------
(* ParallelCleaner on its own: one cleaner, whose statistics every call of *)
(* clean shares, is given lists taken from an unpruned scan result.  In    *)
(* SpecCleaner a call begins when no other is under way, in SpecOverlap    *)
(* calls begin at any time, as clean(&self) allows from several threads.   *)

MaxCallItems == 2

\* /root/a with x.txt of 100 bytes, and app.log of 10 bytes.
CleanerTree ==
    {Dir(Root, 4096),
     Dir(Root \o <<n_a>>, 4096),
     File(Root \o <<n_a, n_x_txt>>, 100),
     File(Root \o <<n_app_log>>, 10)}

\* The paths the file system may refuse to remove during a run.
CleanerLocks == {{}, {Root \o <<n_a, n_x_txt>>}}

\* What Scanner::scan returns for the tree, before any pruning.
ScanPool == Aggregate(FoldAll(EmptyAccumulator, ScanWalk), Root)

\* The lists of 1 to n different items of a list.
ListsOver(pool, n) ==
    {l \in UNION {[1..k -> Range(pool)] : k \in 1..n} :
        \A i, j \in DOMAIN l : l[i] = l[j] => i = j}

CleanerInit ==
    /\ pc = "cleaner"
    /\ tree = CleanerTree
    /\ cfg = [scenario |-> "none", directories |-> <<n_a>>,
              files |-> <<p_star_dot_star>>, exclude |-> <<>>,
              preserve_symlinks |-> TRUE, max_depth |-> DefaultMaxDepth,
              entry |-> "lib", check_git_repo |-> FALSE]
    /\ fs = tree
    /\ \E give \in [Invocations -> ListsOver(ScanPool, MaxCallItems)] :
          calls = [c \in Invocations |-> IdleCall(give[c])]
    /\ locked \in CleanerLocks
    /\ stats = EmptyStatistics
    /\ items = <<>>
    /\ pruned = <<>>
    /\ repruned = <<>>
    /\ walk = <<>>
    /\ acc = [w \in Workers |-> EmptyAccumulator]
    /\ live = Workers
    /\ scan_errors = <<>>
    /\ work = <<>>
    /\ queue = {}
    /\ errors = <<>>
    /\ report = DefaultReport
    /\ pmatcher = EmptyMatcher
    /\ held = EmptyMatcher
    /\ added = NoAddition
    /\ probe = NoProbe
    /\ found = NoMatch
    /\ args = NoArgs
    /\ merged = EmptyPatterns
    /\ remerged = EmptyPatterns
    /\ tracker = CategoryTracker_new

\* clean up to the parallel loop: the items sorted, the statistics reset.
BeginCall(c) ==
    /\ pc = "cleaner"
    /\ calls[c].pc = "Idle"
    /\ calls' = [calls EXCEPT ![c].pc = "Running",
                              ![c].work = SortBySize(calls[c].given),
                              ![c].queue =
                                 1..Len(SortBySize(calls[c].given))]
    /\ stats' = reset_statistics(stats)
    /\ UNCHANGED <<tracker, mergeVars, matchVars, pc, items, pruned, repruned, cfg,
                   tree, fs, scanVars, locked, work, queue, errors, report>>

\* A call of clean made one after another: every call before it has returned
\* and no later one has begun.
BeginCallAlone(c) ==
    /\ \A d \in Invocations : d < c => calls[d].pc = "Reported"
    /\ \A d \in Invocations : d > c => calls[d].pc = "Idle"
    /\ BeginCall(c)

\* The closure given to for_each, run by a worker of the pool on item i of
\* call c.
DeleteCall(c, i, partial) ==
    /\ pc = "cleaner"
    /\ calls[c].pc = "Running"
    /\ i \in calls[c].queue
    /\ LET item == calls[c].work[i]
           res == delete_item(fs, locked, item, partial)
       IN /\ fs' = res.fs
          /\ IF res.ok
             THEN /\ stats' = [stats EXCEPT !.items_deleted = @ + 1,
                                            !.bytes_freed = @ + item.size]
                  /\ calls' = [calls EXCEPT ![c].queue = @ \ {i},
                                            ![c].succeeded = @ \cup {i}]
             ELSE /\ stats' = [stats EXCEPT !.errors =
                                  {e \in @ : e.path # item.path}
                                  \cup {CleanIoError(item.path)}]
                  /\ calls' = [calls EXCEPT ![c].queue = @ \ {i},
                                            ![c].errors =
                                               Append(@, CleanIoError(item.path))]
    /\ UNCHANGED <<tracker, mergeVars, matchVars, pc, items, pruned, repruned, cfg,
                   tree, scanVars, locked, work, queue, errors, report>>

\* Mutant: install returns while items are still waiting.
DrainCallEarly(c) ==
    /\ pc = "cleaner"
    /\ calls[c].pc = "Running"
    /\ calls' = [calls EXCEPT ![c].pc = "Drained"]
    /\ UNCHANGED <<tracker, mergeVars, matchVars, pc, items, pruned, repruned, cfg,
                   tree, fs, scanVars, cleanVars>>

\* thread_pool.install returns once every item of the call was attempted.
DrainCall(c) ==
    /\ pc = "cleaner"
    /\ calls[c].pc = "Running"
    /\ calls[c].queue = {}
    /\ calls' = [calls EXCEPT ![c].pc = "Drained"]
    /\ UNCHANGED <<tracker, mergeVars, matchVars, pc, items, pruned, repruned, cfg,
                   tree, fs, scanVars, cleanVars>>

\* The counters are loaded and the CleanReport returned.
ReportCall(c) ==
    /\ pc = "cleaner"
    /\ calls[c].pc = "Drained"
    /\ calls' = [calls EXCEPT ![c].pc = "Reported",
                              ![c].report = live_report(stats, calls[c].errors)]
    /\ UNCHANGED <<tracker, mergeVars, matchVars, pc, items, pruned, repruned, cfg,
                   tree, fs, scanVars, cleanVars>>

CleanerNext ==
    \/ \E c \in Invocations : BeginCallAlone(c)
    \/ \E c \in Invocations, partial \in BOOLEAN :
          \E i \in calls[c].queue : DeleteCall(c, i, partial)
    \/ \E c \in Invocations : DrainCall(c)
    \/ \E c \in Invocations : ReportCall(c)

SpecCleaner == CleanerInit /\ [][CleanerNext]_vars

OverlapNext ==
    \/ \E c \in Invocations : BeginCall(c)
    \/ \E c \in Invocations, partial \in BOOLEAN :
          \E i \in calls[c].queue : DeleteCall(c, i, partial)
    \/ \E c \in Invocations : DrainCall(c)
    \/ \E c \in Invocations : ReportCall(c)

SpecOverlap == CleanerInit /\ [][OverlapNext]_vars

-----------------------------------------------------------------------------
(* Claims about calls of ParallelCleaner::clean.                           *)

\* The calls of clean that have returned their report.
Returned == {c \in Invocations : calls[c].pc = "Reported"}

\* The paths of the failures a call has collected.
FailedPaths(c) == {calls[c].errors[k].path : k \in DOMAIN calls[c].errors}

\* The positions of the items of a call that are in none of its failures.
NotFailed(c) ==
    {i \in DOMAIN calls[c].work : calls[c].work[i].path \notin FailedPaths(c)}

\* C31: every item passed to a live clean is attempted once and never again:
\* at any time the successes, the failures and the items still waiting add up
\* to the items passed in; when clean returns nothing is waiting,
\* items_deleted + len(errors) is the number of items passed in, items_deleted
\* counts the items without a failure, which are gone from the file system,
\* and bytes_freed is the sum of the sizes of exactly those items.
C31_AttemptedOnce ==
    pc = "cleaner" =>
        \A c \in Invocations :
            /\ calls[c].pc # "Idle" =>
                  /\ Len(calls[c].work) = Len(calls[c].given)
                  /\ Cardinality(calls[c].succeeded) + Len(calls[c].errors)
                        + Cardinality(calls[c].queue) = Len(calls[c].given)
                  /\ \A i \in calls[c].succeeded :
                        calls[c].work[i].path \notin Paths(fs)
            /\ c \in Returned =>
                  /\ calls[c].queue = {}
                  /\ calls[c].report.items_deleted
                        + Len(calls[c].report.errors) = Len(calls[c].given)
                  /\ calls[c].report.items_deleted = Cardinality(NotFailed(c))
                  /\ calls[c].report.bytes_freed
                        = SizeOver(calls[c].work, NotFailed(c))

\* C31 witness: a call given two items has returned; one item was deleted and
\* its bytes counted, the other could not be deleted.
C31_Witness ==
    /\ pc = "cleaner"
    /\ \E c \in Returned :
          /\ Len(calls[c].given) = 2
          /\ calls[c].report.items_deleted = 1
          /\ calls[c].report.bytes_freed > 0
          /\ Len(calls[c].report.errors) = 1

\* The order of the states of a call.
CallOrder ==
    {<<"Idle", "Running">>, <<"Running", "Drained">>,
     <<"Drained", "Reported">>}

\* C32: a call moves through Idle, Running, Drained and Reported in that
\* order; it is Drained or Reported only with no item waiting; while it is
\* Drained no counter and no failure list changes; the report is written in
\* the step to Reported and in no other, and nothing of a Reported call ever
\* changes.
C32_CallStateMachine ==
    [][\A c \in Invocations :
          /\ calls'[c].pc # calls[c].pc =>
                <<calls[c].pc, calls'[c].pc>> \in CallOrder
          /\ calls'[c].pc \in {"Drained", "Reported"} => calls'[c].queue = {}
          /\ calls[c].pc = "Drained" =>
                /\ stats' = stats
                /\ calls'[c].errors = calls[c].errors
                /\ calls'[c].succeeded = calls[c].succeeded
          /\ calls'[c].report # calls[c].report =>
                /\ calls[c].pc = "Drained"
                /\ calls'[c].pc = "Reported"
          /\ calls[c].pc = "Reported" => calls'[c] = calls[c]]_vars

\* C32 witness: both calls have returned a report, the first of them with one
\* item deleted and a failure, while the statistics have moved on.
C32_Witness ==
    /\ pc = "cleaner"
    /\ Returned = Invocations
    /\ calls[1].report.items_deleted = 1
    /\ Len(calls[1].report.errors) = 1
    /\ stats.items_deleted # calls[1].report.items_deleted

\* C33: counters do not leak between calls made one after another: the report
\* of every call counts the items this call deleted, sums their sizes and
\* lists the failures of this call's items and no others.
C33_NoLeakBetweenCalls ==
    pc = "cleaner" =>
        \A c \in Returned :
            /\ calls[c].report.items_deleted = Cardinality(calls[c].succeeded)
            /\ calls[c].report.bytes_freed
                  = SizeOver(calls[c].work, calls[c].succeeded)
            /\ calls[c].report.errors = calls[c].errors
            /\ FailedPaths(c) \subseteq ItemPaths(calls[c].given)

\* C33 witness: the first call deleted items and counted bytes, the second
\* call deleted an item and failed on another, and has returned.
C33_Witness ==
    /\ pc = "cleaner"
    /\ Returned = Invocations
    /\ calls[1].report.items_deleted > 0
    /\ calls[1].report.bytes_freed > 0
    /\ Len(calls[1].report.errors) = 0
    /\ calls[2].report.items_deleted = 1
    /\ Len(calls[2].report.errors) = 1

\* C34: when calls of clean overlap, the report of each still has
\* items_deleted and bytes_freed equal to the count and the total size of the
\* items that this call deleted.
C34_OverlapReportsOwnDeletions ==
    pc = "cleaner" =>
        \A c \in Returned :
            LET own == calls[c].succeeded
            IN /\ calls[c].report.items_deleted = Cardinality(own)
               /\ calls[c].report.bytes_freed = SizeOver(calls[c].work, own)

\* The pairs of positions of a directory and an item beneath it in the work
\* of a call.
NestedPairs(c) ==
    {p \in (DOMAIN calls[c].work) \X (DOMAIN calls[c].work) :
        /\ calls[c].work[p[1]].item_type = "Directory"
        /\ is_ancestor(calls[c].work[p[1]].path, calls[c].work[p[2]].path)}

\* The report of deleting the listed items one after the other.
ReportOf(nodes, its) ==
    LET run == SeqClean(nodes, locked, its, [i \in DOMAIN its |-> FALSE], 1)
    IN [items_deleted |-> run.deleted, bytes_freed |-> run.bytes,
        failed |-> run.failed]

\* C39: for a list holding a directory and one of its descendants, both
\* present and removable, the report depends on the order of the deletions:
\* directory first, the descendant's deletion fails and one item is counted;
\* descendant first, both succeed and the descendant's bytes are counted
\* with the directory's size, which holds them already.  A call given just
\* such a pair returns one of these two reports.
C39_NestedPairOutcomes ==
    pc = "cleaner" =>
        \A p \in NestedPairs(1) :
            LET D == calls[1].work[p[1]]
                d == calls[1].work[p[2]]
                dirFirst == ReportOf(tree, <<D, d>>)
                dirLast == ReportOf(tree, <<d, D>>)
            IN locked = {} =>
                  /\ dirFirst.items_deleted = 1
                  /\ dirFirst.failed = {d.path}
                  /\ dirFirst.bytes_freed = D.size
                  /\ dirLast.items_deleted = 2
                  /\ dirLast.failed = {}
                  /\ dirLast.bytes_freed = D.size + d.size
                  /\ D.size >= NodeAt(tree, D.path).len + d.size
                  /\ (1 \in Returned /\ Len(calls[1].work) = 2) =>
                        \E r \in {dirFirst, dirLast} :
                           /\ calls[1].report.items_deleted = r.items_deleted
                           /\ calls[1].report.bytes_freed = r.bytes_freed
                           /\ FailedPaths(1) = r.failed

\* C39 witness: the directory a and a/x.txt were passed to one call, x.txt
\* was deleted before the directory, and the report counts two items and the
\* 100 bytes of x.txt twice.
C39_Witness ==
    /\ pc = "cleaner"
    /\ locked = {}
    /\ 1 \in Returned
    /\ NestedPairs(1) # {}
    /\ calls[1].report.errors = <<>>
    /\ calls[1].report.items_deleted = 2
    /\ calls[1].report.bytes_freed = 4096 + 100 + 100

-----------------------------------------------------------------------------
(* Claims about the bytes of a file in the sizes of the pruned items.      *)

\* The node of the tree that the walk reads under a path: the path looked up
\* through the links among its parents, and through a last link when links
\* are followed.
NodeReached(path) ==
    LET at == Resolve(tree, path)
        n == NodeAt(tree, at)
    IN IF n.kind = "symlink" /\ ~cfg.preserve_symlinks
       THEN NodeAt(tree, n.target)
       ELSE n

\* The paths under which the scan recorded the bytes of the file node f.
RecordedAs(f) ==
    {Recorded.file_sizes[k][1] : k \in
        {j \in DOMAIN Recorded.file_sizes :
            NodeReached(Recorded.file_sizes[j][1]) = f}}

\* The size of the item holds the bytes of the file node f: the item is the
\* file under one of its recorded paths, or a directory above one of them.
HoldsBytesOf(item, f) ==
    \E p \in RecordedAs(f) :
        \/ item.item_type # "Directory" /\ item.path = p
        \/ item.item_type = "Directory" /\ is_ancestor(item.path, p)

\* The pruned items whose size holds the bytes of the file node f.
HoldersOf(f) ==
    {i \in DOMAIN pruned : HoldsBytesOf(pruned[i], f)}

RegularFiles == {n \in tree : n.kind = "file"}

\* C35: after scan and prune the bytes of each regular file are in the size
\* of at most one surviving item.
C35_NoDoubleCounting ==
    pc \in {"ready", "cleaning", "drained", "reported"} =>
        \A f \in RegularFiles : Cardinality(HoldersOf(f)) <= 1

-----------------------------------------------------------------------------
(* Claims about the category tracker.                                      *)

\* The positions of the candidates of a category.
InCategory(c) ==
    {i \in DOMAIN items : get_category(items[i].pattern.pattern) = c}

\* C36: the tracker hears of nothing before the scan has aggregated the
\* directory sizes; after the scan every candidate of the result has been
\* reported once with its final size: each category has the number and the
\* total size of its candidates, so the total count is the number of
\* candidates and the total size the sum of their sizes.
C36_TrackedOnceAfterAggregation ==
    /\ pc \in {"start", "scanning"} => tracker = CategoryTracker_new
    /\ pc = "scanned" =>
          /\ \A c \in PatternCategory :
                /\ tracker.counts[c] = Cardinality(InCategory(c))
                /\ tracker.sizes[c] = SizeOver(items, InCategory(c))
          /\ total_count(tracker) = Len(items)
          /\ total_size(tracker) = SumSizes(items)

\* C36 witness: a scan has returned a directory with bytes beneath it and a
\* file, of different categories, and the tracker has the directory's final
\* size.
C36_Witness ==
    /\ pc = "scanned"
    /\ \E i, j \in DOMAIN items :
          /\ items[i].item_type = "Directory"
          /\ items[i].size > 0
          /\ items[j].item_type = "File"
          /\ get_category(items[i].pattern.pattern)
                # get_category(items[j].pattern.pattern)
          /\ tracker.sizes[get_category(items[i].pattern.pattern)]
                >= items[i].size
    /\ total_count(tracker) > 2

-----------------------------------------------------------------------------
(* Claims about dirs_deleted and files_deleted.                            *)

\* C37: in every final report dirs_deleted + files_deleted is items_deleted,
\* in a dry run and in a live clean, with or without failures, through
\* Cleaner::clean and through run().
C37_DeletedCountsAddUp ==
    pc = "reported" =>
        report.dirs_deleted + report.files_deleted = report.items_deleted

-----------------------------------------------------------------------------
(* Claims about exclusion and the walk.                                    *)

\* The directories among entries whose own name matches an exclusion
\* pattern.
ExcludedDirs(entries) ==
    {e \in entries : e.file_type = "dir" /\ NameExcluded(e.path)}

\* The entries beneath one of the directories.
Beneath(entries, dirs) ==
    {e \in entries : \E x \in dirs : is_ancestor(x.path, e.path)}

\* The entry's own name matches an include pattern of its type.
IncludedByName(e) ==
    \/ /\ e.file_type \in {"dir", "symlink"}
       /\ \E i \in 1..Len(cfg.directories) :
             GlobMatch(cfg.directories[i], Last(e.path))
    \/ /\ e.file_type \in {"file", "symlink"}
       /\ \E i \in 1..Len(cfg.files) : GlobMatch(cfg.files[i], Last(e.path))

\* C38: exclusion looks at an entry's own name and does not stop the walk.  A
\* directory with an excluded name is no candidate, yet the walk yields what
\* it holds (when it can be read and max_depth allows), and an entry beneath
\* it is a candidate exactly when its own name matches an include pattern of
\* its type and no exclusion pattern (and, for a file or a link, its metadata
\* could be read).
C38_ExclusionByOwnName ==
    pc = "scanned" =>
        LET visited == Visited
            walked == {ScanWalk[k].path : k \in DOMAIN ScanWalk}
            candidates == ItemPaths(items)
            excluded == ExcludedDirs(visited)
        IN /\ \A x \in excluded :
                 /\ x.path \notin candidates
                 /\ (/\ x.path \in Paths(tree)
                     /\ NodeAt(tree, x.path).kind = "dir"
                     /\ NodeAt(tree, x.path).readable
                     /\ Len(x.path) - Len(Root) < cfg.max_depth) =>
                       \A n \in tree :
                           (Len(n.path) > 1 /\ Front(n.path) = x.path) =>
                               n.path \in walked
           /\ \A e \in Beneath(visited, excluded) :
                 e.path \in candidates <=>
                    /\ IncludedByName(e)
                    /\ ~NameExcluded(e.path)
                    /\ e.file_type \in {"file", "symlink"} => e.md_ok

\* C38 witness: the directory target is excluded by name and is no candidate;
\* target/dist beneath it was walked and is one.
C38_Witness ==
    /\ pc = "scanned"
    /\ LET visited == Visited
           excluded == ExcludedDirs(visited)
       IN \E x \in excluded, e \in Beneath(visited, excluded) :
             /\ is_ancestor(x.path, e.path)
             /\ IncludedByName(x)
             /\ x.path \notin ItemPaths(items)
             /\ e.path \in ItemPaths(items)

-----------------------------------------------------------------------------
(* Claims about a call of add_include_patterns or add_exclude_patterns    *)
(* that returns a pattern error.                                           *)

\* The strings of the last add call that stand before its first string that
\* does not compile.
CompiledBeforeError ==
    LET bad == {i \in DOMAIN added.patterns :
                   ~Pattern_new_ok(added.patterns[i])}
    IN IF bad = {} THEN added.patterns
       ELSE SubSeq(added.patterns, 1,
                   (CHOOSE i \in bad : \A j \in bad : i <= j) - 1)

GoesToFileList(pattern_str) ==
    "." \in Range(pattern_str) \/ "*" \in Range(pattern_str)

GoesToDirectoryList(pattern_str) == ~GoesToFileList(pattern_str)

AddFailed == pc \in {"add_failed", "failed_probed"}

\* C40 as stated: add_include_patterns and add_exclude_patterns are
\* all-or-nothing: after a call that returned a pattern error the matcher holds
\* the directory, file and exclude lists it held before the call, and a later
\* match returns what it would have returned before the call.
C40_AddAllOrNothing ==
    /\ AddFailed => pmatcher = held
    /\ pc = "failed_probed" =>
          found = matches_with_type(held, probe.path, probe.file_type)

\* C40 amended: a call of add_include_patterns or add_exclude_patterns returns
\* a pattern error exactly when one of its strings does not compile, and then
\* the strings before the first such string have been added, in their order,
\* to the end of the list each belongs to; nothing else of the matcher has
\* changed, and no string after the first invalid one has been added.
C40_AddKeepsValidPrefix ==
    /\ AddFailed =>
          /\ \E i \in DOMAIN added.patterns :
                 ~Pattern_new_ok(added.patterns[i])
          /\ added.fn = "include" =>
                 /\ pmatcher.file_patterns =
                       held.file_patterns
                          \o SelectSeq(CompiledBeforeError, GoesToFileList)
                 /\ pmatcher.directory_patterns =
                       held.directory_patterns
                          \o SelectSeq(CompiledBeforeError, GoesToDirectoryList)
                 /\ pmatcher.exclude_patterns = held.exclude_patterns
          /\ added.fn = "exclude" =>
                 /\ pmatcher.exclude_patterns =
                       held.exclude_patterns \o CompiledBeforeError
                 /\ pmatcher.file_patterns = held.file_patterns
                 /\ pmatcher.directory_patterns = held.directory_patterns
    /\ pc \in {"added", "added_probed", "excluded", "excluded_probed"} =>
          \A i \in DOMAIN added.patterns : Pattern_new_ok(added.patterns[i])

\* C40 witness: add_exclude_patterns was given "a" and then a string that does
\* not compile and returned the error; the matcher has kept "a" as an
\* exclusion, and a name that had a match before the call has none after it.
C40_Witness ==
    /\ pc = "failed_probed"
    /\ added.fn = "exclude"
    /\ CompiledBeforeError # <<>>
    /\ pmatcher # held
    /\ matches_with_type(held, probe.path, probe.file_type) # NoMatch
    /\ found = NoMatch

====
